---- MODULE Spec2Model ----
(***************************************************************************)
(* Model of the self-healing migration controller of erpnext-ast-analyzer: *)
(* the CLI command migrate_file (cli.py) and the web UI path tab_migrate   *)
(* (app.py), with the Generator (generator.py) they drive.                 *)
(*                                                                         *)
(* A Python string is modelled as a sequence of tokens, each token a whole  *)
(* lexical unit or a whole line of tool output; "\n" is the newline token  *)
(* and " " the blank token.  Concatenation is \o.  The literals the code    *)
(* searches for never straddle two tokens, so "lit in s" is InText(lit, s): *)
(* some token of s is one of Occurs(lit), the tokens whose text holds lit.  *)
(* The token "<fence>" stands for the three backquotes of a markdown fence. *)
(***************************************************************************)
EXTENDS Integers, Sequences, FiniteSets, Bags, TLC

\* ------------------------------------------------------------------ bounds
\* most lines the verifier prints on its standard output
MaxStdoutLines == 1

\* most tokens of a provider's answer
MaxRawLen == 3

\* chunks handed to index_chunks
NumChunks == 4

\* runs of index_chunks on the same chunks
MaxRuns == 2

\* most blocks of lines of a text handed to the sanitizer
MaxBlocks == 3

\* ------------------------------------------------------------ Python str
RECURSIVE BoundedSeq(_, _)
BoundedSeq(S, n) ==
    IF n = 0 THEN {<<>>}
    ELSE LET shorter == BoundedSeq(S, n - 1)
         IN  shorter \cup {Append(s, t) : s \in {x \in shorter : Len(x) = n - 1}, t \in S}

\* s holds sub as a contiguous run of tokens
Contains(sub, s) ==
    \E i \in 0..(Len(s) - Len(sub)) : SubSeq(s, i + 1, i + Len(sub)) = sub

\* Python s.startswith(p)
StartsWith(s, p) ==
    Len(p) <= Len(s) /\ SubSeq(s, 1, Len(p)) = p

\* Python s.replace(tok, "") for a one-token pattern
Remove(s, tok) == SelectSeq(s, LAMBDA t : t # tok)

Whitespace == {" ", "\n"}

\* Python s.strip()
RECURSIVE LStrip(_)
LStrip(s) ==
    IF s # <<>> /\ Head(s) \in Whitespace THEN LStrip(Tail(s)) ELSE s

RECURSIVE RStrip(_)
RStrip(s) ==
    IF s # <<>> /\ s[Len(s)] \in Whitespace THEN RStrip(SubSeq(s, 1, Len(s) - 1)) ELSE s

Strip(s) == LStrip(RStrip(s))

\* Python s.splitlines(): the lines without their terminators; a trailing
\* newline opens no further line
RECURSIVE SplitLines(_)
SplitLines(s) ==
    IF s = <<>> THEN <<>>
    ELSE IF \E i \in 1..Len(s) : s[i] = "\n"
         THEN LET i == CHOOSE j \in 1..Len(s) :
                           s[j] = "\n" /\ \A k \in 1..(j - 1) : s[k] # "\n"
              IN  <<SubSeq(s, 1, i - 1)>> \o SplitLines(SubSeq(s, i + 1, Len(s)))
         ELSE <<s>>

\* Python sep.join(lines)
RECURSIVE Join(_, _)
Join(sep, lines) ==
    IF lines = <<>> THEN <<>>
    ELSE IF Len(lines) = 1 THEN lines[1]
    ELSE lines[1] \o sep \o Join(sep, Tail(lines))

\* str(n) of a small number
PyStr(n) ==
    CASE n = 0 -> "0" [] n = 1 -> "1" [] n = 2 -> "2" [] n = 3 -> "3"
      [] n = 4 -> "4" [] OTHER -> "5"

\* first index >= p of s that holds no whitespace token (Len(s) + 1 if none):
\* where a regex \s* starting at p stops
RECURSIVE SkipWs(_, _)
SkipWs(s, p) ==
    IF p <= Len(s) /\ s[p] \in Whitespace THEN SkipWs(s, p + 1) ELSE p

\* position p is where a MULTILINE ^ matches
AtLineStart(s, p) == p = 1 \/ (p <= Len(s) + 1 /\ p > 1 /\ s[p - 1] = "\n")

\* position p is where a MULTILINE $ matches
AtLineEnd(s, p) == p = Len(s) + 1 \/ (p <= Len(s) /\ s[p] = "\n")

\* Python s.replace(sub, rep, 1)
ReplaceFirst(s, sub, rep) ==
    IF sub # <<>> /\ Contains(sub, s)
    THEN LET i == CHOOSE j \in 0..(Len(s) - Len(sub)) :
                      /\ SubSeq(s, j + 1, j + Len(sub)) = sub
                      /\ \A k \in 0..(j - 1) : SubSeq(s, k + 1, k + Len(sub)) # sub
         IN  SubSeq(s, 1, i) \o rep \o SubSeq(s, i + Len(sub) + 1, Len(s))
    ELSE s

\* the lines go test -v may print
ImplLine == "./bin.go:5:2: \"os\" imported and not used"
TestLine == "./bin_test.go:9:3: undefined: helper"
InfraLine == "connection timeout"

\* the tokens whose text holds the literal (any other literal occurs only
\* in the token that spells it)
Occurs(lit) ==
    CASE lit = "imported and not used" -> {ImplLine}
      [] lit = "undefined"             -> {TestLine}
      [] lit = "bin_test.go"           -> {TestLine}
      [] lit = "bin.go"                -> {ImplLine}
      [] lit = "GENERATION FAILED"     -> {"// GENERATION FAILED: no code"}
      [] lit = "rate"                  -> {"rate limit reached"}
      [] lit = "limit"                 -> {"rate limit reached"}
      [] lit = "503"                   -> {"error code: 503"}
      [] lit = "errors."               -> {"errors.New("}
      [] lit = "errors.New"            -> {"errors.New("}
      [] lit = "getReservedQty"        ->
             {"getReservedQty", "getReservedQtyForProduction",
              "getReservedQtyForProductionPlan"}
      [] lit = "getReservedQtyForProduction" ->
             {"getReservedQtyForProduction", "getReservedQtyForProductionPlan"}
      [] OTHER                         -> {lit}

\* Python "lit in s"
InText(lit, s) == \E i \in DOMAIN s : s[i] \in Occurs(lit)

\* ------------------------------------------------------------- Sanitizer
\* tokens whose text starts with the given literal (str.startswith on the
\* first token of a stripped line)
Prefixed(lit) ==
    CASE lit = "#"       -> {"# Migration notes"}
      [] lit = "*"       -> {"* bullet", "*p = 1", "*/"}
      [] lit = "*/"      -> {"*/"}
      [] lit = "==="     -> {"==="}
      [] lit = "go test" -> {"go test ./..."}
      [] lit = "go run"  -> {"go run ."}
      [] lit = "//"      ->
             {"// ", "// Removed duplicate: ", "// TODO: Fix undefined ",
              "// GENERATION FAILED: no code", "// Error: File not found",
              "// Error: 'openai' library not installed. Run: pip install openai",
              "// Error: 'groq' library not installed. Run: pip install groq",
              "// OpenAI Error: ", "// OpenAI max retries exceeded",
              "// Groq Error: ", "// Groq max retries exceeded",
              "// Error: Malformed Gemini response", "// Gemini Error: ",
              "// Gemini Connection Error: ", "// Gemini max retries exceeded"}
      [] OTHER           -> {}

LineStartsWith(s, lit) == s # <<>> /\ Head(s) \in Prefixed(lit)

\* identifier tokens (\w+): an identifier is one token, so two of them are
\* never adjacent in a text
single_return_funcs ==
    <<"getBinDetails", "GetActualQty", "getValuationMethod",
      "getReservedQtyForProductionPlan", "getBatchQty", "makeAutoname",
      "cint", "flt", "getNameFromHash", "batchExists">>

undefined_funcs ==
    <<"getPlannedQty", "getIndentedQty", "getOrderedQty",
      "getReservedQty", "getReservedQtyForProduction">>

Range(f) == {f[i] : i \in DOMAIN f}

WordTokens ==
    {"a", "b", "err"} \cup {"getValueStr"}
        \cup Range(single_return_funcs) \cup Range(undefined_funcs)

\* "var <name> = func" openers of a top-level definition, and their names
VarFuncName ==
    [t \in {"var cint = func", "var flt = func"} |->
        IF t = "var cint = func" THEN "cint" ELSE "flt"]

\* step 1 of _auto_fix_common_errors: the matches of
\* ^(var\s+(\w+)\s*=\s*func.*?^\}) in order (re.finditer, non-overlapping),
\* each as <<first, last, name>>
RECURSIVE FuncMatches(_, _)
FuncMatches(code, p) ==
    IF p > Len(code) THEN <<>>
    ELSE IF /\ AtLineStart(code, p)
            /\ code[p] \in DOMAIN VarFuncName
            /\ \E q \in (p + 1)..Len(code) : code[q] = "}" /\ code[q - 1] = "\n"
         THEN LET q == CHOOSE j \in (p + 1)..Len(code) :
                           /\ code[j] = "}" /\ code[j - 1] = "\n"
                           /\ \A k \in (p + 1)..(j - 1) :
                                  ~(code[k] = "}" /\ code[k - 1] = "\n")
              IN  <<<<p, q, VarFuncName[code[p]]>>>> \o FuncMatches(code, q + 1)
         ELSE FuncMatches(code, p + 1)

\* the loop over the matches: the first match of a name is remembered, each
\* later one has the first occurrence of its text replaced in the current code
RECURSIVE RemoveDuplicates(_, _, _, _)
RemoveDuplicates(orig, code, matches, seen_funcs) ==
    IF matches = <<>> THEN code
    ELSE LET m == Head(matches)
         IN  IF m[3] \notin seen_funcs
             THEN RemoveDuplicates(orig, code, Tail(matches), seen_funcs \cup {m[3]})
             ELSE RemoveDuplicates(orig,
                      ReplaceFirst(code, SubSeq(orig, m[1], m[2]),
                                   <<"// Removed duplicate: ", m[3]>>),
                      Tail(matches), seen_funcs)

\* step 2, one function: re.sub of (\w+)\s*,\s*\w+\s*:=\s*func\s*\(  by
\* \1 := func(   from position p on
RECURSIVE FixSingleReturn(_, _, _)
FixSingleReturn(code, func, p) ==
    IF p > Len(code) THEN <<>>
    ELSE LET a == SkipWs(code, p + 1)
             b == SkipWs(code, a + 1)
             c == SkipWs(code, b + 1)
             d == SkipWs(code, c + 1)
             e == SkipWs(code, d + 1)
         IN  IF /\ code[p] \in WordTokens
                /\ e <= Len(code)
                /\ code[a] = ","
                /\ code[b] \in WordTokens
                /\ code[c] = ":="
                /\ code[d] = func
                /\ code[e] = "("
             THEN <<code[p], " ", ":=", " ", func, "(">>
                      \o FixSingleReturn(code, func, e + 1)
             ELSE <<code[p]>> \o FixSingleReturn(code, func, p + 1)

RECURSIVE FixAllSingleReturn(_, _)
FixAllSingleReturn(code, funcs) ==
    IF funcs = <<>> THEN code
    ELSE FixAllSingleReturn(FixSingleReturn(code, Head(funcs), 1), Tail(funcs))

\* step 3, one function: re.sub of ^(\s*)(\w+\s*:?=\s*func\s*\(.*?\))$ by
\* \1// TODO: Fix undefined func\n\1// \2   (MULTILINE) from position p on
RECURSIVE CommentUndefined(_, _, _)
CommentUndefined(code, func, p) ==
    IF p > Len(code) THEN <<>>
    ELSE LET a == SkipWs(code, p)
             b == SkipWs(code, a + 1)
             c == SkipWs(code, b + 1)
             d == SkipWs(code, c + 1)
             Closes(e) == /\ code[e] = ")"
                          /\ AtLineEnd(code, e + 1)
                          /\ \A k \in (d + 1)..(e - 1) : code[k] # "\n"
         IN  IF /\ AtLineStart(code, p)
                /\ d <= Len(code)
                /\ code[a] \in WordTokens
                /\ code[b] \in {":=", "="}
                /\ code[c] = func
                /\ code[d] = "("
                /\ \E e \in (d + 1)..Len(code) : Closes(e)
             THEN LET e == CHOOSE j \in (d + 1)..Len(code) :
                               Closes(j) /\ \A k \in (d + 1)..(j - 1) : ~Closes(k)
                      indent == SubSeq(code, p, a - 1)
                  IN  indent \o <<"// TODO: Fix undefined ", func, "\n">>
                          \o indent \o <<"// ">> \o SubSeq(code, a, e)
                          \o CommentUndefined(code, func, e + 1)
             ELSE <<code[p]>> \o CommentUndefined(code, func, p + 1)

RECURSIVE CommentAllUndefined(_, _)
CommentAllUndefined(code, funcs) ==
    IF funcs = <<>> THEN code
    ELSE CommentAllUndefined(
             IF InText(Head(funcs), code)
             THEN CommentUndefined(code, Head(funcs), 1) ELSE code,
             Tail(funcs))

\* step 4: re.sub of ^\s*"errors"\s*$ by the empty string (MULTILINE)
RECURSIVE RemoveErrorsImport(_, _)
RemoveErrorsImport(code, p) ==
    IF p > Len(code) THEN <<>>
    ELSE LET a == SkipWs(code, p)
             b == SkipWs(code, a + 1)
             Ends == {k \in (a + 1)..b : AtLineEnd(code, k)}
         IN  IF /\ AtLineStart(code, p)
                /\ a <= Len(code)
                /\ code[a] = "\"errors\""
                /\ Ends # {}
             THEN LET k == CHOOSE j \in Ends : \A i \in Ends : i <= j
                  IN  RemoveErrorsImport(code, k)
             ELSE <<code[p]>> \o RemoveErrorsImport(code, p + 1)

_auto_fix_common_errors(code) ==
    LET c1 == RemoveDuplicates(code, code, FuncMatches(code, 1), {})
        c2 == FixAllSingleReturn(c1, single_return_funcs)
        c3 == CommentAllUndefined(c2, undefined_funcs)
    IN  IF /\ InText("\"errors\"", c3)
           /\ ~InText("errors.", c3)
           /\ ~InText("errors.New", c3)
        THEN RemoveErrorsImport(c3, 1)
        ELSE c3

\* the line filter of _clean_code: TRUE for a line that is kept
KeepLine(line) ==
    LET s == Strip(line)
    IN  \/ s = <<>>
        \/ /\ ~LineStartsWith(s, "#")
           /\ ~(LineStartsWith(s, "*") /\ ~LineStartsWith(s, "*/"))
           /\ ~LineStartsWith(s, "===")
           /\ s # <<"go">>
           /\ ~LineStartsWith(s, "go test")
           /\ ~LineStartsWith(s, "go run")

\* _clean_code up to the test for the module declaration: fences removed,
\* lines filtered, the result stripped
CleanBody(raw) ==
    LET text  == Remove(Remove(raw, "<fence>go"), "<fence>")
        lines == SelectSeq(SplitLines(text), KeepLine)
    IN  Strip(Join(<<"\n">>, lines))

\* _clean_code up to the call of _auto_fix_common_errors: the module
\* declaration is put in front of a text that holds it nowhere
DeclaredBody(raw) ==
    LET body == CleanBody(raw)
    IN  IF ~InText("package main", body)
        THEN <<"package main", "\n", "\n">> \o body
        ELSE body

_clean_code(raw) == _auto_fix_common_errors(DeclaredBody(raw))

\* ------------------------------------------------------------- Generator
\* what the LLM provider call (_query_llm) may return: fenced code, a typed
\* failure string of the provider layer (which, like any text without the
\* module declaration, makes _clean_code synthesize it), and a text that
\* holds the words GENERATION FAILED
LLMResponses ==
    { <<"<fence>go", "\n", "package main", "\n", "func A() {}", "\n", "<fence>">>,
      <<"// OpenAI max retries exceeded">>,
      <<"// GENERATION FAILED: no code">> }

\* the provider layer's failure strings all start with "//"
IsErrorShaped(raw) == raw # <<>> /\ Head(raw) \in {"// OpenAI max retries exceeded"}

_generate_validated(raw) == _clean_code(raw)

\* migrate_full_file: <<go_code, test_code>> from the two provider answers
migrate_full_file(exists, rawGo, rawTest) ==
    IF ~exists THEN << <<"// Error: File not found">>, <<>> >>
    ELSE << _generate_validated(rawGo), _generate_validated(rawTest) >>

FixPrompt_first_line(code, error_log) ==
    <<"ERROR LOG:", "\n">> \o SubSeq(error_log, 1, 1)
        \o <<"\n", "\n", "CODE:", "\n">> \o code \o <<"\n", "\n">>

\* fix_code: the part of the prompt that is not fixed text
FixPrompt(code, error_log) ==
    <<"ERROR LOG:", "\n">> \o error_log
        \o <<"\n", "\n", "CODE:", "\n">> \o code \o <<"\n", "\n">>

\* fix_code: the provider's answer to the fix prompt, sanitized
fix_code(raw) == _clean_code(raw)

\* ------------------------------------------------------------ Controller
MAX_RETRIES_one_more == 3 + 1

MAX_RETRIES == 3

filename_no_ext == "bin"
go_file         == "bin.go"
test_file       == "bin_test.go"
report_file     == "migration_report.md"
mod_file        == "go.mod"

\* what the verifier (go test -v) may print: up to MaxStdoutLines lines on
\* its standard output and at most one line on its standard error
DiagLines == {ImplLine, TestLine, InfraLine}

Stdouts == BoundedSeq(DiagLines, MaxStdoutLines)

Stderrs == {<<>>} \cup {<<l>> : l \in DiagLines}

ExitCodes == {0, 1}

BuildErrorKeywords ==
    { "imported and not used", "declared and not used",
      "undefined", "expected declaration", "cannot find package",
      "mock: Unexpected Method Call", "expected 'package'",
      "syntax error" }

is_build_error(log_text) == \E msg \in BuildErrorKeywords : InText(msg, log_text)

Passed_unless_keyword(proc) ==
    proc.returncode = 0 /\ ~is_build_error(proc.stdout \o proc.stderr)

\* process.returncode == 0
Passed(proc) == proc.returncode = 0

\* cli.py: error_log = process.stderr + process.stdout
cli_error_log(proc) == proc.stderr \o proc.stdout

\* cli.py: final_output = process.stdout + process.stderr on success
cli_success_output(proc) == proc.stdout \o proc.stderr

\* app.py: output_log = process.stdout + process.stderr
app_output_log(proc) == proc.stdout \o proc.stderr

\* cli.py: final_output = error_log, in every failing round
cli_final_output_keep_first(previous, error_log) ==
    IF previous = <<>> THEN error_log ELSE previous

cli_final_output(previous, error_log) == error_log

ShouldHeal_every_round(build, att) == build

ShouldHeal_any_failure(build, att) == att < MAX_RETRIES - 1

ShouldHeal_last_round_too(build, att) == build /\ att < MAX_RETRIES

\* if is_build_error and attempt < MAX_RETRIES - 1
ShouldHeal(build, att) == build /\ att < MAX_RETRIES - 1

HealsTest_inverted(log_text) == ~InText(test_file, log_text)

HealsTest_unless_impl_named(log_text) ==
    InText(test_file, log_text) /\ ~InText(go_file, log_text)

\* if f"{filename_no_ext}_test.go" in error_log
HealsTest(log_text) == InText(test_file, log_text)

HealedPair_both(names_test, g_code, t_code, fixed) == <<fixed, fixed>>

HealedPair_swapped(names_test, g_code, t_code, fixed) ==
    IF names_test THEN <<fixed, t_code>> ELSE <<g_code, fixed>>

\* the healing branch: <<go_code, test_code>> after fix_code has returned
\* `fixed` for the artifact it was given
HealedPair(names_test, g_code, t_code, fixed) ==
    IF names_test THEN <<g_code, fixed>> ELSE <<fixed, t_code>>

ReportStatus_swapped(ok) == IF ok THEN "FAILED" ELSE "SUCCESS"

\* 'SUCCESS' if success else 'FAILED'
ReportStatus(ok) == IF ok THEN "SUCCESS" ELSE "FAILED"

report_content(ok, logs, output) ==
    <<"# Migration Report: ", filename_no_ext, "\n",
      "**Status:** ", ReportStatus(ok), "\n",
      "**Date:** ", "%Y-%m-%d %H:%M:%S", "\n", "\n",
      "## Migration Log", "\n">>
        \o Join(<<"\n">>, logs)
        \o <<"\n", "\n", "## Final Test Output", "\n", "<fence>text", "\n">>
        \o output
        \o <<"\n", "<fence>", "\n">>

WriteFile_append(d, name, content) ==
    [f \in (DOMAIN d) \cup {name} |->
        IF f # name THEN d[f]
        ELSE IF name \in DOMAIN d THEN d[name] \o content ELSE content]

\* open(name, "w").write(content) in the target directory
WriteFile(d, name, content) ==
    [f \in (DOMAIN d) \cup {name} |-> IF f = name THEN content ELSE d[f]]

NoFiles == [f \in {} |-> <<>>]

\* a target directory left behind by an earlier job for the same base name
StaleFiles ==
    [f \in {go_file, test_file, report_file, mod_file, "bin_helpers.go"} |-> <<"stale">>]

NoProcess == [returncode |-> 0, stdout |-> <<>>, stderr |-> <<>>]

PathRejected_never(exists) == FALSE

\* cli.py: click.Path(exists=True) refuses the argument; app.py: the
\* os.path.exists test reports "File not found"
PathRejected(exists) == ~exists

ConstructionRaises_never(credential) == FALSE

\* CodeGenerator.__init__: RuntimeError("No LLM API key found") when none of
\* the three provider keys is set
ConstructionRaises(credential) == ~credential

VARIABLES
    ctl,             \* "cli" (migrate_file) or "app" (tab_migrate)
    source_exists,   \* the source path exists
    has_credential,  \* an LLM provider key is configured
    go_installed,    \* the go executable is on the PATH
    pc,              \* the job's position
    report_logs, go_code, test_code, attempt, success, final_output,
    process,         \* result of the last subprocess.run(["go", "test", "-v"])
    dir_exists, disk,\* the target directory and its files
    verifs,          \* verifier invocations so far
    genCalls,        \* provider calls made by migrate_full_file
    fixCalls,        \* fix_code calls, per artifact
    writes,          \* artifact file writes
    setups,          \* environment-setup steps (go mod init / go mod tidy)
    reports,         \* report writes
    rounds,          \* per verification: how it ended and what came of it
    rawImpl,         \* the provider's answer to the implementation prompt
    kept,            \* the file the last healing did not hand to fix_code, and
                     \* what it held when that healing began
    before,          \* the artifact pair and the directory when the last
                     \* healing began
    fix_prompt,      \* the prompt of the fix_code call of the healing round
                     \* under way
    verified         \* the two artifact files as the last verification found them

env     == <<ctl, source_exists, has_credential, go_installed>>
locals  == <<report_logs, go_code, test_code, attempt, success, final_output, process>>
files   == <<dir_exists, disk>>
counts  == <<verifs, genCalls, fixCalls, writes, setups, reports, rounds, rawImpl, kept, before, fix_prompt, verified>>

\* two migrate-file runs for the same base name and output directory, each
\* its own process, on the one target directory (dir_exists, disk)
VARIABLES
    jpc,             \* each run's position
    jatt,            \* each run's loop variable attempt
    jgo, jtest,      \* the versions of each run's go_code and test_code
    jlog,            \* each run's error_log of the round being healed
    jlist,           \* the entries each run's rmtree has listed and not yet unlinked
    jseen            \* whose files each run's last go test compiled

jobs    == <<jpc, jatt, jgo, jtest, jlog, jlist, jseen>>

\* one call of CodeGenerator._generate_validated: _query_llm, then _clean_code
VARIABLES
    provider,        \* self.provider: "openai", "groq" or "google"
    lib_installed,   \* the provider's client library can be imported
    qpc,             \* the call's position
    qi,              \* passes of the for loop over the delays that have ended
    qattempts,       \* requests sent to the provider
    qlast,           \* how the last request ended: "none", "ok" or "failed"
    qslept,          \* the arguments of the time.sleep calls, in order
    qresult,         \* what _query_llm returned
    qcode,           \* what _clean_code made of it
    qerror           \* the HTTP status and the message or body of the last request

query   == <<provider, lib_installed, qpc, qi, qattempts, qlast, qslept, qresult, qcode,
             qerror>>

\* CodeIndexer.index_chunks on the same chunks, run after run
VARIABLES
    ipc,             \* the position of index_chunks
    iruns,           \* per finished run: the ids it upserted and the ids stored after it
    ipending,        \* chunks submitted to the executor and not yet taken by a worker
    irunning,        \* chunks a worker thread is processing
    iattempt,        \* per chunk, while _get_embedding runs: requests it has sent
    islept,          \* per chunk, while _get_embedding runs: its waits, in order
    ivector,         \* per chunk being processed: what _get_embedding gave
    ids, documents, embeddings, metadatas,
                     \* the four lists of the run under way
    collection       \* the Chroma collection: a bag of entries

lists   == <<ids, documents, embeddings, metadatas>>
workers == <<iattempt, islept, ivector>>
index   == <<ipc, iruns, ipending, irunning, workers, lists, collection>>

\* one call of CodeGenerator._clean_code
VARIABLES
    sraw,            \* the argument raw
    spc,             \* "called" or "returned"
    stext,           \* the text handed to _auto_fix_common_errors
    sout             \* the text returned

sanitizer == <<sraw, spc, stext, sout>>

\* the CLI command and then the web UI path on the same inputs
VARIABLES
    script,          \* the provider's answers and the verifier's outcomes of both runs
    first            \* how the CLI run ended, once it has

pair    == <<script, first>>
vars    == <<env, pc, locals, files, counts, jobs, query, index, sanitizer, pair>>

Jobs == {1, 2}

JobsInit ==
    /\ jpc = [j \in Jobs |-> "start"]
    /\ jatt = [j \in Jobs |-> 0]
    /\ jgo = [j \in Jobs |-> 0]
    /\ jtest = [j \in Jobs |-> 0]
    /\ jlog = [j \in Jobs |-> <<>>]
    /\ jlist = [j \in Jobs |-> {}]
    /\ jseen = [j \in Jobs |-> "none"]

log_newest_first(logs, msg) == <<<<"- ">> \o msg>> \o logs

\* report_logs.append(f"- {msg}")
log(logs, msg) == Append(logs, <<"- ">> \o msg)

\* the state a migration job starts in
RunInit ==
    /\ ctl \in {"cli", "app"}
    /\ source_exists \in BOOLEAN
    /\ has_credential \in BOOLEAN
    /\ go_installed \in BOOLEAN
    /\ pc = "start"
    /\ report_logs = <<>>
    /\ go_code = <<>>
    /\ test_code = <<>>
    /\ attempt = 0
    /\ success = FALSE
    /\ final_output = <<>>
    /\ process = NoProcess
    /\ \/ dir_exists = FALSE /\ disk = NoFiles
       \/ dir_exists = TRUE /\ disk = StaleFiles
    /\ verifs = 0
    /\ genCalls = 0
    /\ fixCalls = [impl |-> 0, test |-> 0]
    /\ writes = 0
    /\ setups = 0
    /\ reports = 0
    /\ rounds = <<>>
    /\ rawImpl = <<>>
    /\ kept = [which |-> "none", content |-> <<>>]
    /\ before = [go |-> <<>>, test |-> <<>>, disk |-> NoFiles]
    /\ fix_prompt = <<>>
    /\ verified = [go |-> <<>>, test |-> <<>>]

\* no request has been answered yet
NoError == [status |-> 0, msg |-> ""]

\* a generator constructed for provider p, before a call
QueryInit(p, installed) ==
    /\ provider = p
    /\ lib_installed = installed
    /\ qpc = "idle"
    /\ qi = 0
    /\ qattempts = 0
    /\ qlast = "none"
    /\ qslept = <<>>
    /\ qresult = <<>>
    /\ qcode = <<>>
    /\ qerror = NoError

\* an indexer on a new collection (get_or_create_collection)
IndexInit ==
    /\ ipc = "idle"
    /\ iruns = <<>>
    /\ ipending = <<>>
    /\ irunning = {}
    /\ iattempt = [k \in 1..NumChunks |-> 0]
    /\ islept = [k \in 1..NumChunks |-> <<>>]
    /\ ivector = [k \in 1..NumChunks |-> "pending"]
    /\ ids = <<>>
    /\ documents = <<>>
    /\ embeddings = <<>>
    /\ metadatas = <<>>
    /\ collection = EmptyBag

\* a call of _clean_code on raw
SanitizerInit(raw) ==
    /\ sraw = raw
    /\ spc = "called"
    /\ stext = <<>>
    /\ sout = <<>>

NoScript == [dir |-> FALSE, rawGo |-> <<>>, rawTest |-> <<>>, procs |-> <<>>, fixes |-> <<>>]

NoFirst == [ended |-> "no"]

\* no second run is looked at
PairInit ==
    /\ script = NoScript
    /\ first = NoFirst

Init ==
    /\ RunInit
    /\ JobsInit
    /\ QueryInit("openai", TRUE)
    /\ IndexInit
    /\ SanitizerInit(<<>>)
    /\ PairInit

\* cli.py migrate_file up to the first generation: click rejects a missing
\* path, CodeGenerator() raises without a credential
cli_start ==
    /\ pc = "start" /\ ctl = "cli"
    /\ IF PathRejected(source_exists) THEN pc' = "rejected" /\ UNCHANGED report_logs
       ELSE IF ConstructionRaises(has_credential)
            THEN pc' = "crashed" /\ UNCHANGED report_logs
       ELSE /\ pc' = "generate"
            /\ report_logs' = log(report_logs, <<"Started migration for ", filename_no_ext>>)
    /\ UNCHANGED <<env, jobs, query, index, sanitizer, pair, go_code, test_code, attempt, success, final_output, process,
                   files, counts>>

cli_generate_with(rawGo, rawTest) ==
    /\ pc = "generate" /\ ctl = "cli"
    /\ go_code' = migrate_full_file(source_exists, rawGo, rawTest)[1]
    /\ test_code' = migrate_full_file(source_exists, rawGo, rawTest)[2]
    /\ rawImpl' = rawGo
    /\ genCalls' = genCalls + (IF source_exists THEN 2 ELSE 0)
    /\ pc' = "prepare"
    /\ UNCHANGED <<env, jobs, query, index, sanitizer, pair, report_logs, attempt, success, final_output, process, files,
                   verifs, fixCalls, writes, setups, reports, rounds, kept, before, fix_prompt, verified>>

\* the two answers of the provider are any of the responses
cli_generate ==
    \E rawGo \in LLMResponses, rawTest \in LLMResponses : cli_generate_with(rawGo, rawTest)

\* app.py tab_migrate up to the first generation: the missing path is
\* reported, the missing credential is caught by the outer except
app_start ==
    /\ pc = "start" /\ ctl = "app"
    /\ IF PathRejected(source_exists) THEN pc' = "rejected" /\ UNCHANGED report_logs
       ELSE /\ report_logs' = log(report_logs, <<"Started migration for ", "bin.py">>)
            /\ pc' = IF ConstructionRaises(has_credential) THEN "error" ELSE "generate"
    /\ UNCHANGED <<env, jobs, query, index, sanitizer, pair, go_code, test_code, attempt, success, final_output, process,
                   files, counts>>

app_generate_with(rawGo, rawTest) ==
    /\ pc = "generate" /\ ctl = "app"
    /\ go_code' = migrate_full_file(source_exists, rawGo, rawTest)[1]
    /\ test_code' = migrate_full_file(source_exists, rawGo, rawTest)[2]
    /\ rawImpl' = rawGo
    /\ genCalls' = genCalls + (IF source_exists THEN 2 ELSE 0)
    /\ IF InText("GENERATION FAILED", go_code')
       THEN /\ report_logs' = log(report_logs, <<"Migration failed: AI Generation Error">>)
            /\ pc' = "stopped"
       ELSE /\ pc' = "prepare"
            /\ UNCHANGED report_logs
    /\ UNCHANGED <<env, jobs, query, index, sanitizer, pair, attempt, success, final_output, process, files,
                   verifs, fixCalls, writes, setups, reports, rounds, kept, before, fix_prompt, verified>>

\* the two answers of the provider are any of the responses
app_generate ==
    \E rawGo \in LLMResponses, rawTest \in LLMResponses : app_generate_with(rawGo, rawTest)

prepare_directory_no_rmtree ==
    /\ pc = "prepare"
    /\ pc' = "makedirs"
    /\ UNCHANGED <<env, jobs, query, index, sanitizer, pair, locals, files, counts>>

\* if os.path.exists(target_dir): shutil.rmtree(target_dir)
prepare_directory ==
    /\ pc = "prepare"
    /\ pc' = IF dir_exists THEN "rmtree" ELSE "makedirs"
    /\ UNCHANGED <<env, jobs, query, index, sanitizer, pair, locals, files, counts>>

\* shutil.rmtree: the directory's entries are unlinked one at a time, in the
\* order the file system lists them
rmtree_unlink ==
    /\ pc = "rmtree"
    /\ disk # NoFiles
    /\ \E f \in DOMAIN disk : disk' = [g \in (DOMAIN disk) \ {f} |-> disk[g]]
    /\ UNCHANGED <<env, jobs, query, index, sanitizer, pair, pc, locals, dir_exists, counts>>

\* shutil.rmtree: the emptied directory is removed
rmtree_rmdir ==
    /\ pc = "rmtree"
    /\ disk = NoFiles
    /\ dir_exists' = FALSE
    /\ pc' = "makedirs"
    /\ UNCHANGED <<env, jobs, query, index, sanitizer, pair, locals, disk, counts>>

\* os.makedirs(target_dir, exist_ok=True)
makedirs ==
    /\ pc = "makedirs"
    /\ dir_exists' = TRUE
    /\ pc' = "save_go"
    /\ UNCHANGED <<env, jobs, query, index, sanitizer, pair, locals, disk, counts>>

save_files_go_initial_only ==
    /\ pc \in {"save_go", "heal_save_go"}
    /\ IF pc = "save_go"
       THEN disk' = WriteFile(disk, go_file, go_code) /\ writes' = writes + 1
       ELSE UNCHANGED <<disk, writes>>
    /\ pc' = IF pc = "save_go" THEN "save_test" ELSE "heal_save_test"
    /\ UNCHANGED <<env, jobs, query, index, sanitizer, pair, locals, dir_exists, verifs, genCalls, fixCalls, setups,
                   reports, rounds, rawImpl, kept, before, fix_prompt, verified>>

\* save_files, first write: the implementation file
save_files_go ==
    /\ pc \in {"save_go", "heal_save_go"}
    /\ disk' = WriteFile(disk, go_file, go_code)
    /\ writes' = writes + 1
    /\ pc' = IF pc = "save_go" THEN "save_test" ELSE "heal_save_test"
    /\ UNCHANGED <<env, jobs, query, index, sanitizer, pair, locals, dir_exists, verifs, genCalls, fixCalls, setups,
                   reports, rounds, rawImpl, kept, before, fix_prompt, verified>>

\* save_files, second write: the test file; after the first save the log
\* records it
save_files_test ==
    /\ pc \in {"save_test", "heal_save_test"}
    /\ disk' = WriteFile(disk, test_file, test_code)
    /\ writes' = writes + 1
    /\ IF pc = "save_test"
       THEN /\ report_logs' = log(report_logs, <<"Initial code generated and saved.">>)
            /\ pc' = "init_module"
       ELSE /\ UNCHANGED report_logs
            /\ pc' = "tidy"
    /\ UNCHANGED <<env, jobs, query, index, sanitizer, pair, go_code, test_code, attempt, success, final_output, process,
                   dir_exists, verifs, genCalls, fixCalls, setups, reports, rounds,
                   rawImpl, kept, before, fix_prompt, verified>>

\* go mod init + go mod tidy (check=False: the exit status is ignored); with
\* no go executable subprocess.run raises FileNotFoundError, which nothing in
\* cli.py catches and the outer except of app.py does
init_module ==
    /\ pc = "init_module"
    /\ IF ~go_installed
       THEN /\ pc' = IF ctl = "cli" THEN "crashed" ELSE "error"
            /\ UNCHANGED <<disk, setups>>
       ELSE /\ \E ok \in BOOLEAN :
                 disk' = IF ok THEN WriteFile(disk, mod_file, <<"module ", filename_no_ext>>)
                         ELSE disk
            /\ setups' = setups + 1
            /\ pc' = "verify"
    /\ UNCHANGED <<env, jobs, query, index, sanitizer, pair, locals, dir_exists, verifs, genCalls, fixCalls, writes,
                   reports, rounds, rawImpl, kept, before, fix_prompt, verified>>

\* what a verification round is remembered by
Round(proc, diag) ==
    [passed        |-> proc.returncode = 0,
     build         |-> is_build_error(diag),
     names_test    |-> InText(test_file, diag),
     import_unused |-> InText("imported and not used", diag)]

\* cli.py, one pass of the loop body up to the healing decision: go test,
\* then success, healing or giving up
cli_verify_with(proc) ==
    /\ pc = "verify" /\ ctl = "cli"
    /\ process' = proc
    /\ verifs' = verifs + 1
    /\ verified' = [go |-> disk[go_file], test |-> disk[test_file]]
    /\ LET started   == log(report_logs, <<"Verification ", "Round ",
                                            PyStr(attempt + 1), " started.">>)
           error_log == cli_error_log(process')
           failed    == log(started, <<"Round ", PyStr(attempt + 1),
                                       ": FAILED. Errors detected.">>)
       IN  IF Passed(process')
           THEN /\ report_logs' = log(started, <<"Round ", PyStr(attempt + 1),
                                                 ": SUCCESS. All tests passed.">>)
                /\ final_output' = cli_success_output(process')
                /\ success' = TRUE
                /\ rounds' = Append(rounds, Round(process', final_output'))
                /\ pc' = "report"
           ELSE /\ final_output' = cli_final_output(final_output, error_log)
                /\ success' = success
                /\ rounds' = Append(rounds, Round(process', error_log))
                /\ IF ShouldHeal(is_build_error(error_log), attempt)
                   THEN /\ report_logs' = log(failed, <<"Attempting self-healing for ",
                                                      "Round ", PyStr(attempt + 1),
                                                      " errors.">>)
                        /\ pc' = "heal"
                   ELSE /\ report_logs' = log(failed,
                                              <<"Max retries reached or error not fixable.">>)
                        /\ pc' = "report"
    /\ UNCHANGED <<env, jobs, query, index, sanitizer, pair, go_code, test_code, attempt, files, genCalls, fixCalls,
                   writes, setups, reports, rawImpl, kept, before, fix_prompt>>

\* go test ends with any exit code and any output
cli_verify ==
    \E rc \in ExitCodes, out \in Stdouts, err \in Stderrs :
        cli_verify_with([returncode |-> rc, stdout |-> out, stderr |-> err])

\* cli.py, the healing branch: fix_code on the test file if the error log
\* names it, else on the implementation
cli_heal_with(raw) ==
    /\ pc = "heal" /\ ctl = "cli"
    /\ LET names_test == HealsTest(cli_error_log(process))
       IN  /\ fix_prompt' = FixPrompt(IF names_test THEN test_code ELSE go_code,
                                      cli_error_log(process))
           /\ go_code' = HealedPair(names_test, go_code, test_code, fix_code(raw))[1]
           /\ test_code' = HealedPair(names_test, go_code, test_code, fix_code(raw))[2]
           /\ IF names_test
              THEN /\ fixCalls' = [fixCalls EXCEPT !.test = @ + 1]
                   /\ kept' = [which |-> go_file, content |-> disk[go_file]]
                   /\ report_logs' = log(report_logs, <<"Applied fixes to Test file.">>)
              ELSE /\ fixCalls' = [fixCalls EXCEPT !.impl = @ + 1]
                   /\ kept' = [which |-> test_file, content |-> disk[test_file]]
                   /\ report_logs' = log(report_logs,
                                         <<"Applied fixes to Implementation file.">>)
    /\ before' = [go |-> go_code, test |-> test_code, disk |-> disk]
    /\ pc' = "heal_save_go"
    /\ UNCHANGED <<env, jobs, query, index, sanitizer, pair, attempt, success, final_output, process, files, verifs,
                   genCalls, writes, setups, reports, rounds, rawImpl, verified>>

\* the provider's answer to the fix prompt is any of the responses
cli_heal ==
    \E raw \in LLMResponses : cli_heal_with(raw)

\* app.py, one pass of the loop body up to the healing decision
app_verify_with(proc) ==
    /\ pc = "verify" /\ ctl = "app"
    /\ process' = proc
    /\ verifs' = verifs + 1
    /\ verified' = [go |-> disk[go_file], test |-> disk[test_file]]
    /\ LET started    == log(report_logs, <<"Verification ", "Round ",
                                             PyStr(attempt + 1), " started.">>)
           output_log == app_output_log(process')
           failed     == log(started, <<"Round ", PyStr(attempt + 1),
                                        ": FAILED. Errors detected.">>)
       IN  /\ rounds' = Append(rounds, Round(process', output_log))
           /\ IF Passed(process')
              THEN /\ report_logs' = log(started, <<"Round ", PyStr(attempt + 1),
                                                    ": SUCCESS. All tests passed.">>)
                   /\ final_output' = output_log
                   /\ success' = TRUE
                   /\ pc' = "report"
              ELSE /\ success' = success
                   /\ IF ShouldHeal(is_build_error(output_log), attempt)
                      THEN /\ report_logs' = log(failed, <<"Attempting self-healing for ",
                                                         "Round ", PyStr(attempt + 1),
                                                         " errors.">>)
                           /\ final_output' = final_output
                           /\ pc' = "heal"
                      ELSE /\ final_output' = output_log
                           /\ report_logs' = log(failed,
                                   <<"Max retries reached or error not fixable.">>)
                           /\ pc' = "report"
    /\ UNCHANGED <<env, jobs, query, index, sanitizer, pair, go_code, test_code, attempt, files, genCalls, fixCalls,
                   writes, setups, reports, rawImpl, kept, before, fix_prompt>>

\* go test ends with any exit code and any output
app_verify ==
    \E rc \in ExitCodes, out \in Stdouts, err \in Stderrs :
        app_verify_with([returncode |-> rc, stdout |-> out, stderr |-> err])

\* app.py, the healing branch
app_heal_with(raw) ==
    /\ pc = "heal" /\ ctl = "app"
    /\ LET names_test == HealsTest(app_output_log(process))
       IN  /\ fix_prompt' = FixPrompt(IF names_test THEN test_code ELSE go_code,
                                      app_output_log(process))
           /\ go_code' = HealedPair(names_test, go_code, test_code, fix_code(raw))[1]
           /\ test_code' = HealedPair(names_test, go_code, test_code, fix_code(raw))[2]
           /\ IF names_test
              THEN /\ fixCalls' = [fixCalls EXCEPT !.test = @ + 1]
                   /\ kept' = [which |-> go_file, content |-> disk[go_file]]
                   /\ report_logs' = log(report_logs, <<"Applied fixes to Test file.">>)
              ELSE /\ fixCalls' = [fixCalls EXCEPT !.impl = @ + 1]
                   /\ kept' = [which |-> test_file, content |-> disk[test_file]]
                   /\ report_logs' = log(report_logs,
                                         <<"Applied fixes to Implementation file.">>)
    /\ before' = [go |-> go_code, test |-> test_code, disk |-> disk]
    /\ pc' = "heal_save_go"
    /\ UNCHANGED <<env, jobs, query, index, sanitizer, pair, attempt, success, final_output, process, files, verifs,
                   genCalls, writes, setups, reports, rounds, rawImpl, verified>>

\* the provider's answer to the fix prompt is any of the responses
app_heal ==
    \E raw \in LLMResponses : app_heal_with(raw)

tidy_ends_loop ==
    /\ pc = "tidy"
    /\ setups' = setups + 1
    /\ pc' = "report"
    /\ process' = NoProcess
    /\ fix_prompt' = <<>>
    /\ UNCHANGED <<env, jobs, query, index, sanitizer, pair, report_logs, go_code, test_code, attempt, success,
                   final_output, files, verifs, genCalls, fixCalls, writes, reports,
                   rounds, rawImpl, kept, before, verified>>

tidy_keeps_attempt ==
    /\ pc = "tidy"
    /\ setups' = setups + 1
    /\ pc' = "verify"
    /\ process' = NoProcess
    /\ fix_prompt' = <<>>
    /\ UNCHANGED <<env, jobs, query, index, sanitizer, pair, report_logs, go_code, test_code, attempt, success,
                   final_output, files, verifs, genCalls, fixCalls, writes, reports,
                   rounds, rawImpl, kept, before, verified>>

\* go mod tidy after the healed files are saved, then the for loop's next
\* iteration, or its end when range(MAX_RETRIES) is used up.  The iteration's
\* process result is dropped here: the next iteration rebinds the name
\* before anything reads it, and nothing after the loop reads it.
tidy ==
    /\ pc = "tidy"
    /\ setups' = setups + 1
    /\ attempt' = IF attempt + 1 < MAX_RETRIES THEN attempt + 1 ELSE attempt
    /\ pc' = IF attempt + 1 < MAX_RETRIES THEN "verify" ELSE "report"
    /\ process' = NoProcess
    /\ fix_prompt' = <<>>
    /\ UNCHANGED <<env, jobs, query, index, sanitizer, pair, report_logs, go_code, test_code, success, final_output,
                   files, verifs, genCalls, fixCalls, writes, reports,
                   rounds, rawImpl, kept, before, verified>>

write_report_twice ==
    /\ pc = "report"
    /\ disk' = WriteFile(disk, report_file,
                         report_content(success, report_logs, final_output))
    /\ reports' = reports + 1
    /\ pc' = IF reports = 0 THEN "report" ELSE "done"
    /\ UNCHANGED <<env, jobs, query, index, sanitizer, pair, locals, dir_exists, verifs, genCalls, fixCalls, writes,
                   setups, rounds, rawImpl, kept, before, fix_prompt, verified>>

\* the report is formatted and written
write_report ==
    /\ pc = "report"
    /\ disk' = WriteFile(disk, report_file,
                         report_content(success, report_logs, final_output))
    /\ reports' = reports + 1
    /\ pc' = "done"
    /\ UNCHANGED <<env, jobs, query, index, sanitizer, pair, locals, dir_exists, verifs, genCalls, fixCalls, writes,
                   setups, rounds, rawImpl, kept, before, fix_prompt, verified>>

Next ==
    \/ cli_start \/ cli_generate \/ app_start \/ app_generate
    \/ prepare_directory \/ rmtree_unlink \/ rmtree_rmdir \/ makedirs
    \/ save_files_go \/ save_files_test \/ init_module
    \/ cli_verify \/ cli_heal \/ app_verify \/ app_heal
    \/ tidy \/ write_report

Spec == Init /\ [][Next]_vars


\* --------------------------------------------- two runs, one directory
\* the single run above stands still while the two runs are looked at
single  == <<env, pc, locals, counts, query, index, sanitizer, pair>>

\* the text run j holds as version v of an artifact
Artifact(j, kind, v) == <<"job ", PyStr(j), kind, PyStr(v)>>

\* both runs pass the two fatal conditions and have a working toolchain
InitJobs ==
    /\ Init
    /\ ctl = "cli" /\ source_exists /\ has_credential /\ go_installed

\* an operation on the target directory found it missing (open, scandir and
\* subprocess.run(cwd=...) raise FileNotFoundError) or otherwise raised
Crash(j) ==
    /\ jpc' = [jpc EXCEPT ![j] = "crashed"]
    /\ UNCHANGED <<files, jatt, jgo, jtest, jlog, jlist, jseen>>

\* generator.migrate_full_file
job_generate(j) ==
    /\ jpc[j] = "start"
    /\ jgo' = [jgo EXCEPT ![j] = 1]
    /\ jtest' = [jtest EXCEPT ![j] = 1]
    /\ jpc' = [jpc EXCEPT ![j] = "prepare"]
    /\ UNCHANGED <<single, files, jatt, jlog, jlist, jseen>>

\* if os.path.exists(target_dir): rmtree starts by listing the directory
job_prepare(j) ==
    /\ jpc[j] = "prepare"
    /\ jpc' = [jpc EXCEPT ![j] = IF dir_exists THEN "rmtree" ELSE "makedirs"]
    /\ jlist' = [jlist EXCEPT ![j] = IF dir_exists THEN DOMAIN disk ELSE {}]
    /\ UNCHANGED <<single, files, jatt, jgo, jtest, jlog, jseen>>

\* shutil.rmtree unlinks a listed entry; one that is gone raises
job_rmtree_unlink(j) ==
    /\ jpc[j] = "rmtree"
    /\ \E f \in jlist[j] :
          IF f \notin DOMAIN disk
          THEN Crash(j)
          ELSE /\ disk' = [g \in (DOMAIN disk) \ {f} |-> disk[g]]
               /\ jlist' = [jlist EXCEPT ![j] = @ \ {f}]
               /\ UNCHANGED <<dir_exists, jpc, jatt, jgo, jtest, jlog, jseen>>
    /\ UNCHANGED single

\* shutil.rmtree removes the directory; rmdir raises when the directory is
\* gone or holds an entry made since the listing
job_rmtree_rmdir(j) ==
    /\ jpc[j] = "rmtree"
    /\ jlist[j] = {}
    /\ IF ~dir_exists \/ disk # NoFiles
       THEN Crash(j)
       ELSE /\ dir_exists' = FALSE
            /\ jpc' = [jpc EXCEPT ![j] = "makedirs"]
            /\ UNCHANGED <<disk, jatt, jgo, jtest, jlog, jlist, jseen>>
    /\ UNCHANGED single

\* os.makedirs(target_dir, exist_ok=True)
job_makedirs(j) ==
    /\ jpc[j] = "makedirs"
    /\ dir_exists' = TRUE
    /\ jpc' = [jpc EXCEPT ![j] = "save_go"]
    /\ UNCHANGED <<single, disk, jatt, jgo, jtest, jlog, jlist, jseen>>

\* save_files, first write
job_save_go(j) ==
    /\ jpc[j] \in {"save_go", "heal_save_go"}
    /\ IF ~dir_exists
       THEN Crash(j)
       ELSE /\ disk' = WriteFile(disk, go_file, Artifact(j, go_file, jgo[j]))
            /\ jpc' = [jpc EXCEPT ![j] = IF @ = "save_go" THEN "save_test"
                                         ELSE "heal_save_test"]
            /\ UNCHANGED <<dir_exists, jatt, jgo, jtest, jlog, jlist, jseen>>
    /\ UNCHANGED single

\* save_files, second write
job_save_test(j) ==
    /\ jpc[j] \in {"save_test", "heal_save_test"}
    /\ IF ~dir_exists
       THEN Crash(j)
       ELSE /\ disk' = WriteFile(disk, test_file, Artifact(j, test_file, jtest[j]))
            /\ jpc' = [jpc EXCEPT ![j] = IF @ = "save_test" THEN "init_module"
                                         ELSE "tidy"]
            /\ UNCHANGED <<dir_exists, jatt, jgo, jtest, jlog, jlist, jseen>>
    /\ UNCHANGED single

\* go mod init + go mod tidy in the target directory: go mod init writes
\* go.mod unless there is one
job_init_module(j) ==
    /\ jpc[j] = "init_module"
    /\ IF ~dir_exists
       THEN Crash(j)
       ELSE /\ disk' = IF mod_file \in DOMAIN disk THEN disk
                       ELSE WriteFile(disk, mod_file, <<"module ", filename_no_ext>>)
            /\ jpc' = [jpc EXCEPT ![j] = "verify"]
            /\ UNCHANGED <<dir_exists, jatt, jgo, jtest, jlog, jlist, jseen>>
    /\ UNCHANGED single

\* whose artifact pair go test finds in the directory
Seen(j) ==
    IF go_file \notin DOMAIN disk \/ test_file \notin DOMAIN disk THEN "missing"
    ELSE IF /\ disk[go_file] = Artifact(j, go_file, jgo[j])
            /\ disk[test_file] = Artifact(j, test_file, jtest[j])
         THEN "own" ELSE "foreign"

\* one pass of the loop body up to the healing decision
job_verify(j) ==
    /\ jpc[j] = "verify"
    /\ IF ~dir_exists
       THEN Crash(j)
       ELSE /\ jseen' = [jseen EXCEPT ![j] = Seen(j)]
            /\ \E rc \in ExitCodes, error_log \in {<<l>> : l \in DiagLines} :
                  IF rc = 0
                  THEN /\ jpc' = [jpc EXCEPT ![j] = "report"]
                       /\ UNCHANGED jlog
                  ELSE IF ShouldHeal(is_build_error(error_log), jatt[j])
                  THEN /\ jpc' = [jpc EXCEPT ![j] = "heal"]
                       /\ jlog' = [jlog EXCEPT ![j] = error_log]
                  ELSE /\ jpc' = [jpc EXCEPT ![j] = "report"]
                       /\ UNCHANGED jlog
            /\ UNCHANGED <<files, jatt, jgo, jtest, jlist>>
    /\ UNCHANGED single

\* the healing branch: fix_code gives a new version of one artifact
job_heal(j) ==
    /\ jpc[j] = "heal"
    /\ IF HealsTest(jlog[j])
       THEN jtest' = [jtest EXCEPT ![j] = @ + 1] /\ UNCHANGED jgo
       ELSE jgo' = [jgo EXCEPT ![j] = @ + 1] /\ UNCHANGED jtest
    /\ jpc' = [jpc EXCEPT ![j] = "heal_save_go"]
    /\ UNCHANGED <<single, files, jatt, jlog, jlist, jseen>>

\* go mod tidy after the healed files are saved, then the next iteration
job_tidy(j) ==
    /\ jpc[j] = "tidy"
    /\ IF ~dir_exists
       THEN Crash(j)
       ELSE /\ jatt' = [jatt EXCEPT ![j] = @ + 1]
            /\ jlog' = [jlog EXCEPT ![j] = <<>>]
            /\ jseen' = [jseen EXCEPT ![j] = "none"]
            /\ jpc' = [jpc EXCEPT ![j] = "verify"]
            /\ UNCHANGED <<files, jgo, jtest, jlist>>
    /\ UNCHANGED single

\* the report is written
job_report(j) ==
    /\ jpc[j] = "report"
    /\ IF ~dir_exists
       THEN Crash(j)
       ELSE /\ disk' = WriteFile(disk, report_file, <<"# Migration Report: ", PyStr(j)>>)
            /\ jpc' = [jpc EXCEPT ![j] = "done"]
            /\ UNCHANGED <<dir_exists, jatt, jgo, jtest, jlog, jlist, jseen>>
    /\ UNCHANGED single

NextJobs ==
    \E j \in Jobs :
        \/ job_generate(j) \/ job_prepare(j)
        \/ job_rmtree_unlink(j) \/ job_rmtree_rmdir(j) \/ job_makedirs(j)
        \/ job_save_go(j) \/ job_save_test(j) \/ job_init_module(j)
        \/ job_verify(j) \/ job_heal(j) \/ job_tidy(j) \/ job_report(j)

SpecJobs == InitJobs /\ [][NextJobs]_vars

\* ------------------------------------------------- provider calls, sanitizer
\* the job and the two runs above stand still while one call is looked at
rest == <<env, pc, locals, files, counts, jobs, sanitizer, pair>>

Providers == {"openai", "groq", "google"}

\* for delay in (2, 5, 10)
OPENAI_DELAYS == <<2, 5, 10>>

\* for delay in (2, 5, 10)
GROQ_DELAYS == <<2, 5, 10>>

GEMINI_DELAYS_five == <<1, 2, 4, 8, 16>>

\* for delay in (1, 2, 4, 8)
GEMINI_DELAYS == <<1, 2, 4, 8>>

\* what a provider may answer: any text of up to MaxRawLen of these tokens
RawTokens ==
    {"Here is the code:", "\n", "package main", "func A() {}", "<fence>go", "<fence>"}

RawTexts == BoundedSeq(RawTokens, MaxRawLen)

InitGenerator ==
    /\ RunInit
    /\ ctl = "cli" /\ source_exists /\ has_credential /\ go_installed /\ ~dir_exists
    /\ JobsInit
    /\ IndexInit
    /\ SanitizerInit(<<>>)
    /\ PairInit
    /\ \E p \in Providers, installed \in BOOLEAN : QueryInit(p, installed)

\* the call returns text
Return(text) ==
    /\ qresult' = text
    /\ qpc' = "returned"

\* _query_llm: the dispatch on self.provider, and in _query_openai and
\* _query_groq the import of the client library
_query_llm ==
    /\ qpc = "idle"
    /\ IF provider = "openai" /\ ~lib_installed
       THEN Return(<<"// Error: 'openai' library not installed. Run: pip install openai">>)
       ELSE IF provider = "groq" /\ ~lib_installed
       THEN Return(<<"// Error: 'groq' library not installed. Run: pip install groq">>)
       ELSE qpc' = provider /\ qresult' = qresult
    /\ UNCHANGED <<rest, index, provider, lib_installed, qi, qattempts, qlast, qslept, qcode,
                   qerror>>

\* str(e) of the exceptions the OpenAI client raises
OpenAIErrors == {"Rate limit reached", "Error code: 503", "Invalid API key"}

\* str.lower
Lower(msg) ==
    CASE msg = "Rate limit reached" -> "rate limit reached"
      [] msg = "Error code: 503"    -> "error code: 503"
      [] msg = "Invalid API key"    -> "invalid api key"
      [] OTHER                      -> msg

Retryable_always(msg) == TRUE

\* any(x in msg for x in ("rate", "limit", "429", "500", "503"))
Retryable(msg) ==
    \E x \in {"rate", "limit", "429", "500", "503"} : InText(x, <<msg>>)

\* _query_openai, one pass of the loop or its end: the answer is returned; an
\* exception whose message holds rate, limit, 429, 500 or 503 is slept on and
\* the loop goes on; any other exception is returned as text
_query_openai ==
    /\ qpc = "openai"
    /\ IF qi = Len(OPENAI_DELAYS)
       THEN /\ Return(<<"// OpenAI max retries exceeded">>)
            /\ UNCHANGED <<qi, qattempts, qlast, qslept, qerror>>
       ELSE LET delay == OPENAI_DELAYS[qi + 1]
            IN  /\ qattempts' = qattempts + 1
                /\ \/ /\ \E raw \in RawTexts : Return(raw)
                      /\ qlast' = "ok"
                      /\ qerror' = NoError
                      /\ UNCHANGED <<qi, qslept>>
                   \/ \E e \in OpenAIErrors :
                         LET msg == Lower(e)
                         IN  /\ qlast' = "failed"
                             /\ qerror' = [status |-> 0, msg |-> msg]
                             /\ IF Retryable(msg)
                                THEN /\ qslept' = Append(qslept, delay)
                                     /\ qi' = qi + 1
                                     /\ UNCHANGED <<qpc, qresult>>
                                ELSE /\ Return(<<"// OpenAI Error: ", msg>>)
                                     /\ UNCHANGED <<qi, qslept>>
    /\ UNCHANGED <<rest, index, provider, lib_installed, qcode>>

\* _query_groq: every exception is slept on; the one of the pass with
\* delay 10 is then returned as text
_query_groq ==
    /\ qpc = "groq"
    /\ IF qi = Len(GROQ_DELAYS)
       THEN /\ Return(<<"// Groq max retries exceeded">>)
            /\ UNCHANGED <<qi, qattempts, qlast, qslept, qerror>>
       ELSE LET delay == GROQ_DELAYS[qi + 1]
            IN  /\ qattempts' = qattempts + 1
                /\ \/ /\ \E raw \in RawTexts : Return(raw)
                      /\ qlast' = "ok"
                      /\ qerror' = NoError
                      /\ UNCHANGED <<qi, qslept>>
                   \/ /\ qslept' = Append(qslept, delay)
                      /\ qlast' = "failed"
                      /\ qerror' = [status |-> 0, msg |-> "connection reset"]
                      /\ IF delay = 10
                         THEN Return(<<"// Groq Error: ", "connection reset">>) /\ qi' = qi
                         ELSE qi' = qi + 1 /\ UNCHANGED <<qpc, qresult>>
    /\ UNCHANGED <<rest, index, provider, lib_installed, qcode>>

\* r.status_code of the responses of the Gemini endpoint
GeminiStatuses == {200, 400, 403, 429, 500, 503}

\* r.text of a response that is not a 200
ResponseText(status) ==
    CASE status = 400 -> "bad request"
      [] status = 403 -> "permission denied"
      [] status = 429 -> "resource exhausted"
      [] OTHER        -> "unavailable"

\* _query_gemini: status 200 returns the text, or the malformed-response
\* string; 429, 500 and 503 are slept on and the loop goes on; any other
\* status is returned as text; an exception is slept on, and the one of the
\* pass with delay 8 is then returned as text
_query_gemini ==
    /\ qpc = "google"
    /\ IF qi = Len(GEMINI_DELAYS)
       THEN /\ Return(<<"// Gemini max retries exceeded">>)
            /\ UNCHANGED <<qi, qattempts, qlast, qslept, qerror>>
       ELSE LET delay == GEMINI_DELAYS[qi + 1]
            IN  /\ qattempts' = qattempts + 1
                /\ \/ /\ \E raw \in RawTexts : Return(raw)
                      /\ qlast' = "ok"
                      /\ qerror' = [status |-> 200, msg |-> ""]
                      /\ UNCHANGED <<qi, qslept>>
                   \/ /\ Return(<<"// Error: Malformed Gemini response">>)
                      /\ qlast' = "failed"
                      /\ qerror' = [status |-> 200, msg |-> "{}"]
                      /\ UNCHANGED <<qi, qslept>>
                   \/ \E status \in GeminiStatuses \ {200} :
                         /\ qlast' = "failed"
                         /\ qerror' = [status |-> status, msg |-> ResponseText(status)]
                         /\ IF status \in {429, 500, 503}
                            THEN /\ qslept' = Append(qslept, delay)
                                 /\ qi' = qi + 1
                                 /\ UNCHANGED <<qpc, qresult>>
                            ELSE /\ Return(<<"// Gemini Error: ", ResponseText(status)>>)
                                 /\ UNCHANGED <<qi, qslept>>
                   \/ /\ qslept' = Append(qslept, delay)
                      /\ qlast' = "failed"
                      /\ qerror' = [status |-> 0, msg |-> "timed out"]
                      /\ IF delay = 8
                         THEN Return(<<"// Gemini Connection Error: ", "timed out">>)
                                  /\ qi' = qi
                         ELSE qi' = qi + 1 /\ UNCHANGED <<qpc, qresult>>
    /\ UNCHANGED <<rest, index, provider, lib_installed, qcode>>

\* _generate_validated: code = self._clean_code(code)
clean_answer ==
    /\ qpc = "returned"
    /\ qcode' = _generate_validated(qresult)
    /\ qpc' = "cleaned"
    /\ UNCHANGED <<rest, index, provider, lib_installed, qi, qattempts, qlast, qslept,
                   qresult, qerror>>

NextGenerator ==
    \/ _query_llm \/ _query_openai \/ _query_groq \/ _query_gemini \/ clean_answer

SpecGenerator == InitGenerator /\ [][NextGenerator]_vars

\* ------------------------------------------------------------------ indexer
\* chunk k of the parsed sources: the second differs from the first in the
\* line only, the third in the name only, the fourth in the file only
Chunk(k) ==
    [filepath   |-> IF k <= 3 THEN "bin.py" ELSE "utils.py",
     name       |-> IF k = 3 \/ k >= 5 THEN "update" ELSE "validate",
     start_line |-> IF k \in {1, 3, 4} THEN 1 ELSE k,
     content    |-> <<"def ", PyStr(k)>>]

\* unique_id = f"{chunk['filepath']}:{chunk['name']}:{chunk['start_line']}"
unique_id(chunk) ==
    <<chunk.filepath, ":", chunk.name, ":", PyStr(chunk.start_line)>>

MAX_WORKERS_four == 3 + 1

MAX_WORKERS == 3

\* the ids of the entries of a collection
StoredIds(coll) == {e.id : e \in BagToSet(coll)}

upsert_add(coll, new) == coll (+) SetToBag({new[i] : i \in DOMAIN new})

\* collection.upsert: the entry of an id is replaced if the collection holds
\* one and added if not
upsert(coll, new) ==
    LET newids == {new[i].id : i \in DOMAIN new}
        others == {e \in BagToSet(coll) : e.id \notin newids}
    IN  [e \in others |-> coll[e]] (+) SetToBag({new[i] : i \in DOMAIN new})

InitIndexer ==
    /\ Init
    /\ ctl = "cli" /\ source_exists /\ has_credential /\ go_installed /\ ~dir_exists

\* index_chunks up to the end of the submit loop: every chunk is queued
index_chunks ==
    /\ ipc = "idle"
    /\ Len(iruns) < MaxRuns
    /\ ipending' = [k \in 1..NumChunks |-> k]
    /\ ids' = <<>>
    /\ documents' = <<>>
    /\ embeddings' = <<>>
    /\ metadatas' = <<>>
    /\ ipc' = "pool"
    /\ UNCHANGED <<rest, query, iruns, irunning, workers, collection>>

\* ThreadPoolExecutor(max_workers=MAX_WORKERS): a thread that is free, or
\* one more thread while fewer than MAX_WORKERS exist, takes the oldest
\* queued call
worker_take ==
    /\ ipc = "pool"
    /\ ipending # <<>>
    /\ Cardinality(irunning) < MAX_WORKERS
    /\ irunning' = irunning \cup {Head(ipending)}
    /\ ipending' = Tail(ipending)
    /\ UNCHANGED <<rest, query, ipc, iruns, workers, lists, collection>>

EmbeddingWait_constant(att) == 5

\* wait = (attempt + 1) * 5
EmbeddingWait(att) == (att + 1) * 5

\* the statuses the embedding service may answer with
Statuses == {200, 429, 500}

\* _get_embedding, one pass of for attempt in range(3), or the return None
\* after it: status 200 returns the vector, 429 is waited on, any other
\* status raises; the function's locals end with it
_get_embedding(k) ==
    /\ ipc = "pool"
    /\ k \in irunning
    /\ ivector[k] = "pending"
    /\ IF iattempt[k] = 3
       THEN /\ ivector' = [ivector EXCEPT ![k] = "none"]
            /\ iattempt' = [iattempt EXCEPT ![k] = 0]
            /\ islept' = [islept EXCEPT ![k] = <<>>]
       ELSE \E status \in Statuses :
               IF status = 429
               THEN /\ iattempt' = [iattempt EXCEPT ![k] = @ + 1]
                    /\ islept' = [islept EXCEPT ![k] =
                                      Append(@, EmbeddingWait(iattempt[k]))]
                    /\ ivector' = ivector
               ELSE /\ ivector' = [ivector EXCEPT ![k] =
                                       IF status = 200 THEN "vector" ELSE "raised"]
                    /\ iattempt' = [iattempt EXCEPT ![k] = 0]
                    /\ islept' = [islept EXCEPT ![k] = <<>>]
    /\ UNCHANGED <<rest, query, ipc, iruns, ipending, irunning, lists, collection>>

_process_single_chunk_newest_document_first(k) ==
    /\ ipc = "pool"
    /\ k \in irunning
    /\ ivector[k] # "pending"
    /\ irunning' = irunning \ {k}
    /\ IF ivector[k] = "vector"
       THEN /\ ids' = Append(ids, unique_id(Chunk(k)))
            /\ documents' = <<Chunk(k).content>> \o documents
            /\ embeddings' = Append(embeddings, Len(iruns) + 1)
            /\ metadatas' = Append(metadatas, [name     |-> Chunk(k).name,
                                                filepath |-> Chunk(k).filepath,
                                                line     |-> Chunk(k).start_line])
       ELSE UNCHANGED lists
    /\ ivector' = [ivector EXCEPT ![k] = "pending"]
    /\ UNCHANGED <<rest, query, ipc, iruns, ipending, iattempt, islept, collection>>

\* _process_single_chunk returns and as_completed hands its result on: the
\* result dict when _get_embedding gave a vector (a failed migration after
\* that is caught and changes nothing), None when it gave none or raised;
\* the main thread appends a result to the four lists
_process_single_chunk(k) ==
    /\ ipc = "pool"
    /\ k \in irunning
    /\ ivector[k] # "pending"
    /\ irunning' = irunning \ {k}
    /\ IF ivector[k] = "vector"
       THEN /\ ids' = Append(ids, unique_id(Chunk(k)))
            /\ documents' = Append(documents, Chunk(k).content)
            /\ embeddings' = Append(embeddings, Len(iruns) + 1)
            /\ metadatas' = Append(metadatas, [name     |-> Chunk(k).name,
                                                filepath |-> Chunk(k).filepath,
                                                line     |-> Chunk(k).start_line])
       ELSE UNCHANGED lists
    /\ ivector' = [ivector EXCEPT ![k] = "pending"]
    /\ UNCHANGED <<rest, query, ipc, iruns, ipending, iattempt, islept, collection>>

\* the entries upsert is given: the i-th of each list
Entries ==
    [i \in 1..Len(ids) |-> [id        |-> ids[i],
                           document  |-> documents[i],
                           embedding |-> embeddings[i],
                           metadata  |-> metadatas[i]]]

\* if ids: self.collection.upsert(...)
upsert_results ==
    /\ ipc = "pool"
    /\ ipending = <<>>
    /\ irunning = {}
    /\ collection' = IF ids # <<>> THEN upsert(collection, Entries) ELSE collection
    /\ iruns' = Append(iruns, [stored |-> {ids[i] : i \in DOMAIN ids},
                               ids    |-> StoredIds(collection')])
    /\ ipc' = "idle"
    /\ UNCHANGED <<rest, query, ipending, irunning, workers, lists>>

NextIndexer ==
    \/ index_chunks \/ worker_take
    \/ (\E k \in 1..NumChunks : _get_embedding(k))
    \/ (\E k \in 1..NumChunks : _process_single_chunk(k))
    \/ upsert_results

SpecIndexer == InitIndexer /\ [][NextIndexer]_vars

\* ---------------------------------------------------------------- sanitizer
\* blocks of whole lines a raw text is made of: the module declaration, a
\* top-level definition of cint, one of the same name and another text, one
\* of another name, a two-value and a three-value declaration calling cint,
\* a statement starting with "*", a markdown heading and a fence
Blocks ==
    { <<"package main", "\n">>,
      <<"var cint = func", "\n", "}", "\n">>,
      <<"var cint = func", "(", ")", "\n", "}", "\n">>,
      <<"var flt = func", "\n", "}", "\n">>,
      <<"a", ",", "err", " ", ":=", " ", "cint", "(", ")", "\n">>,
      <<"a", ",", "b", ",", "err", " ", ":=", " ", "cint", "(", ")", "\n">>,
      <<"*p = 1", "\n">>,
      <<"# Migration notes", "\n">>,
      <<"<fence>go", "\n">> }

\* the texts of up to n blocks
RECURSIVE BlockTexts(_)
BlockTexts(n) ==
    IF n = 0 THEN {<<>>}
    ELSE LET shorter == BlockTexts(n - 1)
         IN  shorter \cup {t \o b : t \in shorter, b \in Blocks}

InitSanitizer ==
    /\ RunInit
    /\ ctl = "cli" /\ source_exists /\ has_credential /\ go_installed /\ ~dir_exists
    /\ JobsInit
    /\ QueryInit("openai", TRUE)
    /\ IndexInit
    /\ PairInit
    /\ \E raw \in BlockTexts(MaxBlocks) : SanitizerInit(raw)

\* _clean_code(raw)
clean_code ==
    /\ spc = "called"
    /\ stext' = DeclaredBody(sraw)
    /\ sout' = _clean_code(sraw)
    /\ spc' = "returned"
    /\ UNCHANGED <<env, pc, locals, files, counts, jobs, query, index, pair, sraw>>

NextSanitizer == clean_code

SpecSanitizer == InitSanitizer /\ [][NextSanitizer]_vars


\* ------------------------------- the two controllers on the same inputs

\* go test results a run is given: a pass, a build failure naming the
\* implementation, a build failure naming the test file with a line on stderr
\* too, and a failure that is not a build failure
ScriptProcesses ==
    { [returncode |-> 0, stdout |-> <<TestLine>>, stderr |-> <<>>],
      [returncode |-> 1, stdout |-> <<ImplLine>>, stderr |-> <<>>],
      [returncode |-> 1, stdout |-> <<TestLine>>, stderr |-> <<InfraLine>>],
      [returncode |-> 1, stdout |-> <<>>, stderr |-> <<InfraLine>>] }

\* everything outside the controller that a run depends on: the target
\* directory it finds, the provider's answers to the two generation prompts
\* and to the fix prompt of each round, the result of go test in each round
Scripts ==
    [dir     : BOOLEAN,
     rawGo   : LLMResponses,
     rawTest : LLMResponses,
     procs   : [1..MAX_RETRIES -> ScriptProcesses],
     fixes   : [1..(MAX_RETRIES - 1) -> LLMResponses]]

\* cli.py is run first, on a valid path with a credential and go installed
InitPair ==
    /\ RunInit
    /\ ctl = "cli" /\ source_exists /\ has_credential /\ go_installed
    /\ script \in Scripts
    /\ dir_exists = script.dir
    /\ first = NoFirst
    /\ JobsInit
    /\ QueryInit("openai", TRUE)
    /\ IndexInit
    /\ SanitizerInit(<<>>)

\* what the run of cli.py ended with
Outcome ==
    [ended        |-> pc,
     verifs       |-> verifs,
     fixCalls     |-> fixCalls,
     rounds       |-> rounds,
     success      |-> success,
     final_output |-> final_output,
     go_code      |-> go_code,
     test_code    |-> test_code]

\* after cli.py has ended, the app.py path is started on the same inputs,
\* in the directory state cli.py had found
second_run ==
    /\ ctl = "cli" /\ first = NoFirst
    /\ pc \in {"done", "rejected", "crashed", "stopped", "error"}
    /\ first' = Outcome
    /\ ctl' = "app"
    /\ pc' = "start"
    /\ report_logs' = <<>>
    /\ go_code' = <<>>
    /\ test_code' = <<>>
    /\ attempt' = 0
    /\ success' = FALSE
    /\ final_output' = <<>>
    /\ process' = NoProcess
    /\ dir_exists' = script.dir
    /\ disk' = IF script.dir THEN StaleFiles ELSE NoFiles
    /\ verifs' = 0
    /\ genCalls' = 0
    /\ fixCalls' = [impl |-> 0, test |-> 0]
    /\ writes' = 0
    /\ setups' = 0
    /\ reports' = 0
    /\ rounds' = <<>>
    /\ rawImpl' = <<>>
    /\ kept' = [which |-> "none", content |-> <<>>]
    /\ before' = [go |-> <<>>, test |-> <<>>, disk |-> NoFiles]
    /\ fix_prompt' = <<>>
    /\ verified' = [go |-> <<>>, test |-> <<>>]
    /\ UNCHANGED <<source_exists, has_credential, go_installed, script, jobs, query,
                   index, sanitizer>>

NextPair ==
    \/ cli_start
    \/ cli_generate_with(script.rawGo, script.rawTest)
    \/ app_start
    \/ app_generate_with(script.rawGo, script.rawTest)
    \/ prepare_directory \/ rmtree_unlink \/ rmtree_rmdir \/ makedirs
    \/ save_files_go \/ save_files_test \/ init_module
    \/ cli_verify_with(script.procs[attempt + 1])
    \/ cli_heal_with(script.fixes[attempt + 1])
    \/ app_verify_with(script.procs[attempt + 1])
    \/ app_heal_with(script.fixes[attempt + 1])
    \/ tidy \/ write_report
    \/ second_run

SpecPair == InitPair /\ [][NextPair]_vars


\* ---------------------------------------------------------------- claims
Terminal == pc \in {"done", "rejected", "crashed", "stopped", "error"}

\* the job got past its two fatal conditions
Started == source_exists /\ has_credential

LastRound == rounds[Len(rounds)]

\* process holds the result of the latest verification
JustVerified == verifs >= 1 /\ pc # "verify"

\* every verification so far failed with a build-classified diagnostic
AllBuildFail ==
    rounds # <<>> /\ \A i \in DOMAIN rounds : ~rounds[i].passed /\ rounds[i].build

\* the report this job wrote
Report == disk[report_file]

\* the status the report states: the token after "**Status:** "
ReportedStatus(r) ==
    r[(CHOOSE i \in DOMAIN r : r[i] = "**Status:** ") + 1]

\* the text between the report's closing fences
ReportedOutput(r) ==
    SubSeq(r, (CHOOSE i \in DOMAIN r : r[i] = "<fence>text") + 2, Len(r) - 3)

\* the log lines the report lists, between its two headings
ReportedLog(r) ==
    SubSeq(r, (CHOOSE i \in DOMAIN r : r[i] = "## Migration Log") + 2,
              (CHOOSE i \in DOMAIN r : r[i] = "## Final Test Output") - 3)

\* the combined streams of the last verification, in the order the
\* controller at hand concatenates them on a failure
LastDiagnostic ==
    IF ctl = "cli" THEN process.stderr \o process.stdout
    ELSE process.stdout \o process.stderr

FixCallsTotal == fixCalls.impl + fixCalls.test

\* C1: when every verification fails with a build-classified diagnostic the
\* controller runs exactly 3 verifications and then ends Failed: it never
\* starts a 4th, it does not end before the 3rd, and after the 3rd it goes
\* to the report, which says FAILED.
C1_BoundedRetries ==
    /\ verifs <= 3
    /\ (AllBuildFail /\ verifs < 3) => pc \notin {"report", "done"}
    /\ (AllBuildFail /\ verifs = 3) => (pc \in {"report", "done"} /\ ~success)
    /\ (AllBuildFail /\ pc = "done") => ReportedStatus(Report) = "FAILED"

C1_Witness ==
    /\ pc = "done" /\ AllBuildFail /\ verifs = 3
    /\ ReportedStatus(Report) = "FAILED"

\* C2: once a verification has exited with code 0 in round k the job only
\* writes its report: success is set, exactly k verifications have run, the
\* report says SUCCESS, and no later step calls the generator, writes an
\* artifact, runs environment setup or verifies again.
C2_SuccessIsTerminal ==
    /\ [](JustVerified /\ process.returncode = 0 =>
            /\ pc \in {"report", "done"}
            /\ success
            /\ verifs = attempt + 1
            /\ (pc = "done" => ReportedStatus(Report) = "SUCCESS"))
    /\ [][JustVerified /\ process.returncode = 0 =>
            /\ verifs' = verifs /\ genCalls' = genCalls /\ fixCalls' = fixCalls
            /\ writes' = writes /\ setups' = setups
            /\ go_code' = go_code /\ test_code' = test_code]_vars

C2_Witness ==
    /\ pc = "done" /\ process.returncode = 0 /\ verifs = 2
    /\ ReportedStatus(Report) = "SUCCESS"

\* C3: after a failed verification whose diagnostic holds no build-error
\* keyword the job goes straight to a FAILED report: no healing round, no
\* fix_code call for it (the fix calls are those of the earlier rounds), and
\* in round 1 exactly one verification.
C3_NonBuildShortCircuit ==
    (JustVerified /\ process.returncode # 0 /\ ~is_build_error(LastDiagnostic)) =>
        /\ pc \in {"report", "done"}
        /\ ~success
        /\ FixCallsTotal = verifs - 1
        /\ verifs = attempt + 1
        /\ (pc = "done" => ReportedStatus(Report) = "FAILED")

C3_Witness ==
    /\ pc = "done" /\ verifs = 1 /\ process.returncode # 0
    /\ LastDiagnostic = <<InfraLine>>
    /\ FixCallsTotal = 0
    /\ ReportedStatus(Report) = "FAILED"

\* C4: every healing round hands exactly one artifact to fix_code (one fix
\* call per healing round, never two), and the other artifact is unchanged:
\* once the round's files are saved the file that was not regenerated holds
\* what it held in the round before.
C4_SingleArtifactRegeneration ==
    /\ pc \in {"heal_save_go", "heal_save_test", "tidy"} => FixCallsTotal = attempt + 1
    /\ pc \in {"verify", "heal"} => FixCallsTotal = attempt
    /\ kept.which = go_file => go_code = kept.content
    /\ kept.which = test_file => test_code = kept.content
    /\ (kept.which # "none" /\ pc \in {"tidy", "verify", "heal", "report", "done"}) =>
           disk[kept.which] = kept.content

C4_Witness ==
    /\ pc = "verify" /\ attempt = 2 /\ fixCalls.impl = 1 /\ fixCalls.test = 1
    /\ kept.which = go_file /\ disk[go_file] = kept.content

\* the first generation step gave nothing usable: the provider returned a
\* failure string, or the sanitized text had no module declaration
ImplUnusable ==
    /\ genCalls > 0
    /\ (IsErrorShaped(rawImpl) \/ ~InText("package main", CleanBody(rawImpl)))

\* C5: after an unusable first generation no verification is run (the job
\* goes straight to a FAILED report with stub artifacts).
C5_GenerationFailureShortCircuit ==
    ImplUnusable => verifs = 0

\* C6: after an error-shaped answer to the first generation call the
\* Generator is not called again: no test generation, no fix_code.
C6_GenerationFailureNotRetried ==
    (genCalls > 0 /\ IsErrorShaped(rawImpl)) => (genCalls <= 1 /\ FixCallsTotal = 0)

\* C7: every started job ends with exactly one report written, and the
\* report holds the final verification's output.
C7_ReportTotality ==
    (Started /\ Terminal) =>
        /\ reports = 1
        /\ report_file \in DOMAIN disk
        /\ Contains(LastDiagnostic, Report)

\* C8: the report says SUCCESS exactly when the last verifier run exited
\* with code 0; a run that exited with 0 is never healed, whatever it printed.
C8_StatusIffExitCode ==
    /\ pc = "done" => (ReportedStatus(Report) = "SUCCESS" <=> process.returncode = 0)
    /\ pc \in {"report", "done"} => (success <=> process.returncode = 0)
    /\ pc \in {"heal", "heal_save_go", "heal_save_test"} => process.returncode # 0

C8_Witness ==
    /\ pc = "done" /\ process.returncode = 0
    /\ is_build_error(process.stdout \o process.stderr)
    /\ ReportedStatus(Report) = "SUCCESS"

\* log entries that report a round's result ("- Round k: ...")
RoundEntries(logs) == {i \in DOMAIN logs : logs[i][2] = "Round "}

\* log entries that open a round ("- Verification Round k started.")
RoundStartEntries(logs) ==
    {i \in DOMAIN logs : logs[i][2] = "Verification " /\ logs[i][3] = "Round "}

\* round 1 failed on "imported and not used" without naming the test file
HealThenPassRound1 ==
    /\ rounds # <<>>
    /\ ~rounds[1].passed /\ rounds[1].import_unused /\ ~rounds[1].names_test

\* C9: when round 1 fails with "imported and not used" and no mention of the
\* test file, the healing regenerates the implementation only, and if round
\* 2 then passes the job ends SUCCESS after 2 verifications, with one
\* "Round k: ..." result entry and one "Verification Round k started." entry
\* in the log for each of the 2 rounds.
C9_HealThenPass ==
    /\ (HealThenPassRound1 /\ Len(rounds) = 1 /\ pc # "heal") =>
           (fixCalls.impl = 1 /\ fixCalls.test = 0 /\ test_code = disk[test_file])
    /\ (HealThenPassRound1 /\ Len(rounds) = 2 /\ rounds[2].passed) =>
           /\ pc \in {"report", "done"}
           /\ success
           /\ verifs = 2 /\ attempt + 1 = 2
           /\ fixCalls.impl = 1 /\ fixCalls.test = 0
           /\ Cardinality(RoundEntries(report_logs)) = 2
           /\ Cardinality(RoundStartEntries(report_logs)) = 2
           /\ (pc = "done" => ReportedStatus(Report) = "SUCCESS")

C9_Witness ==
    /\ pc = "done" /\ HealThenPassRound1 /\ Len(rounds) = 2 /\ rounds[2].passed
    /\ ReportedStatus(Report) = "SUCCESS"

\* C10: when the job ends Failed the report's final output is the combined
\* output of the last verification that ran.
C10_FailedReportsLastDiagnostic ==
    (pc = "done" /\ ~success) =>
        /\ ReportedStatus(Report) = "FAILED"
        /\ ReportedOutput(Report) = LastDiagnostic
        /\ final_output = LastDiagnostic

C10_Witness ==
    /\ pc = "done" /\ ~success /\ verifs = 3
    /\ rounds[2].names_test /\ ~rounds[3].names_test
    /\ ReportedOutput(Report) = LastDiagnostic

\* a healing round is under way: fix_code has returned, the round's files
\* are being saved or have just been saved
Healing == pc \in {"heal_save_go", "heal_save_test", "tidy"}

\* C11: in a healing round the test artifact is the one handed to fix_code
\* exactly when the diagnostic text holds the test file's name, and then the
\* implementation is what it was; otherwise the implementation is the one
\* handed to fix_code and the test is what it was.  Over the whole job, the
\* fix calls per artifact count the healed rounds whose diagnostic did, and
\* did not, name the test file.
C11_HealingTargetSelection ==
    /\ Healing =>
          /\ InText(test_file, LastDiagnostic) <=> kept.which = go_file
          /\ ~InText(test_file, LastDiagnostic) <=> kept.which = test_file
          /\ InText(test_file, LastDiagnostic) => go_code = before.go
          /\ ~InText(test_file, LastDiagnostic) => test_code = before.test
    /\ fixCalls.test =
          Cardinality({i \in 1..FixCallsTotal : rounds[i].names_test})
    /\ fixCalls.impl =
          Cardinality({i \in 1..FixCallsTotal : ~rounds[i].names_test})

C11_Witness ==
    /\ pc = "tidy" /\ InText(test_file, LastDiagnostic)
    /\ kept.which = go_file /\ go_code = before.go /\ test_code # before.test
    /\ fixCalls.test = 1 /\ fixCalls.impl = 1

\* the diagnostic of the round being healed names both files
NamesBoth ==
    InText(go_file, LastDiagnostic) /\ InText(test_file, LastDiagnostic)

\* C12 as stated: when the diagnostic names both the implementation file
\* and the test file, the healing round regenerates the implementation.
C12_BothNamedHealsImplementation ==
    (Healing /\ NamesBoth) => (kept.which = test_file /\ test_code = before.test)

\* C12 amended: when the diagnostic names both files, the healing round
\* regenerates the test artifact and leaves the implementation as it was.
C12_BothNamedHealsTest ==
    (Healing /\ NamesBoth) => (kept.which = go_file /\ go_code = before.go)

C12_Witness ==
    /\ pc = "tidy" /\ NamesBoth /\ is_build_error(LastDiagnostic)
    /\ kept.which = go_file /\ go_code = before.go /\ test_code # before.test

\* some file of the directory is one an earlier job left there
StaleSurvives == \E f \in DOMAIN disk : disk[f] = StaleFiles[go_file]

\* C13: the target directory is emptied and recreated before the job's
\* first artifact write: nothing is written while the reset is pending, the
\* first write finds an empty directory, and from the first write on the
\* directory holds only files this job wrote (no file of an earlier job,
\* whatever its name).
C13_TargetDirectoryReset ==
    /\ pc \in {"prepare", "rmtree", "makedirs"} =>
           (writes = 0 /\ setups = 0 /\ reports = 0)
    /\ pc = "save_go" => (dir_exists /\ disk = NoFiles)
    /\ writes > 0 =>
           /\ dir_exists
           /\ ~StaleSurvives
           /\ DOMAIN disk \subseteq {go_file, test_file, report_file, mod_file}

\* the earlier job's files are all unlinked, its directory about to go
C13_Witness ==
    pc = "rmtree" /\ dir_exists /\ disk = NoFiles /\ writes = 0

\* C14: at every point where the job may be cut short the directory is
\* whole: while it is reset it is either untouched or empty and present
\* (the reset is atomic), and once the job has written, both artifacts are
\* there and are the pair of the round before or the pair of this round.
C14_NeverHalfWritten ==
    /\ pc \in {"rmtree", "makedirs"} =>
           (dir_exists /\ disk \in {StaleFiles, NoFiles})
    /\ writes > 0 =>
           /\ go_file \in DOMAIN disk
           /\ test_file \in DOMAIN disk
           /\ <<disk[go_file], disk[test_file]>> \in
                  { <<before.go, before.test>>, <<go_code, test_code>> }

\* C15: a failure of an external process is never fatal: after the two
\* fatal conditions are passed the job does not end in an uncaught fault,
\* and with the toolchain executable absent it still ends Failed with its
\* report written.
C15_FailureContainment ==
    Started =>
        /\ pc # "crashed"
        /\ (~go_installed /\ Terminal) => (pc = "done" /\ ~success /\ reports = 1)

\* the target directory is as the job found it
DirUntouched ==
    /\ disk \in {NoFiles, StaleFiles}
    /\ dir_exists <=> disk = StaleFiles

\* C17: with a source path that does not exist the job is refused at once:
\* no generator call, the target directory left as it was, no artifact, no
\* report, no environment setup and no verification.
C17_InputError ==
    ~source_exists =>
        /\ pc \in {"start", "rejected"}
        /\ genCalls = 0 /\ FixCallsTotal = 0
        /\ DirUntouched
        /\ writes = 0 /\ reports = 0 /\ setups = 0 /\ verifs = 0
        /\ report_logs = <<>>

C17_Witness ==
    pc = "rejected" /\ ~source_exists /\ disk = StaleFiles /\ genCalls = 0

\* C18: with no provider credential the construction of the generator
\* raises, and it does so before the job touches the target directory: no
\* generation, no reset, no artifact, no report, no verification.
C18_CredentialError ==
    (source_exists /\ ~has_credential) =>
        /\ pc \in {"start", "crashed", "error"}
        /\ genCalls = 0 /\ FixCallsTotal = 0
        /\ DirUntouched
        /\ writes = 0 /\ reports = 0 /\ setups = 0 /\ verifs = 0

C18_Witness ==
    /\ pc \in {"crashed", "error"} /\ source_exists /\ ~has_credential
    /\ disk = StaleFiles /\ writes = 0

\* C19: save_files overwrites both files in full: after each save the two
\* files hold exactly the pair that was saved, and a healing round that
\* saves the pair the directory already held leaves the directory as it was.
C19_SaveIdempotent ==
    /\ pc \in {"init_module", "verify", "heal", "tidy", "report", "done"} =>
           (disk[go_file] = go_code /\ disk[test_file] = test_code)
    /\ (pc = "tidy" /\ go_code = before.go /\ test_code = before.test) =>
           disk = before.disk

C19_Witness ==
    /\ pc = "tidy" /\ writes = 4
    /\ go_code = before.go /\ test_code = before.test
    /\ disk = before.disk

\* why the verification loop has ended, tested as the code tests it: the
\* exit code first, then the classification, then the budget
ExitReasons ==
    {r \in {"passed", "not build-classified", "budget exhausted"} :
        \/ r = "passed" /\ LastRound.passed
        \/ r = "not build-classified" /\ ~LastRound.passed /\ ~LastRound.build
        \/ r = "budget exhausted" /\ ~LastRound.passed /\ LastRound.build
                                  /\ verifs = MAX_RETRIES}

\* C20: the attempt counter (attempt + 1, the round number) stays within
\* 1..MAX_RETRIES; when the loop has ended it has ended for exactly one of
\* three reasons (a pass; a failure that is not build-classified; a
\* build-classified failure in round MAX_RETRIES), and while it goes on none
\* of the three holds of the round just run.
C20_AttemptBoundAndLoopExit ==
    /\ attempt + 1 \in 1..MAX_RETRIES
    /\ verifs <= MAX_RETRIES
    /\ pc \in {"report", "done"} =>
           (rounds # <<>> /\ Cardinality(ExitReasons) = 1)
    /\ (pc \in {"heal", "heal_save_go", "heal_save_test", "tidy"}) =>
           (ExitReasons = {} /\ verifs = attempt + 1)

C20_Witness ==
    /\ pc = "done" /\ verifs = MAX_RETRIES /\ attempt + 1 = MAX_RETRIES
    /\ ExitReasons = {"budget exhausted"}

\* run j is between the start of its directory reset and its report
Owns(j) ==
    jpc[j] \in {"rmtree", "makedirs", "save_go", "save_test", "init_module",
                "verify", "heal", "heal_save_go", "heal_save_test", "tidy",
                "report"}

\* run j takes a step
Steps(j) == <<jpc[j], jlist[j]>>' # <<jpc[j], jlist[j]>>

\* C16: the running job owns its target directory: no step of one run
\* between its reset and its report is taken while another run is between
\* its own reset and report, every go test compiles the artifacts of the run
\* that started it, and no run finds the directory or a file gone.
C16_ExclusiveOwnership ==
    /\ [](\A j \in Jobs : jseen[j] \in {"none", "own"} /\ jpc[j] # "crashed")
    /\ [][\A j \in Jobs :
             (Steps(j) /\ Owns(j)) => \A i \in Jobs \ {j} : ~Owns(i)]_vars

\* the steps a job at a verification of round attempt + 1 has left at most:
\* five for each healing round the budget still allows, then the report
StepsFromVerify(att) == 2 + 5 * (MAX_RETRIES - 1 - att)

\* the steps the job has left at most
StepsLeft ==
    CASE pc = "start"          -> StepsFromVerify(0) + 8 + Cardinality(DOMAIN disk)
      [] pc = "generate"       -> StepsFromVerify(0) + 7 + Cardinality(DOMAIN disk)
      [] pc = "prepare"        -> StepsFromVerify(0) + 6 + Cardinality(DOMAIN disk)
      [] pc = "rmtree"         -> StepsFromVerify(0) + 5 + Cardinality(DOMAIN disk)
      [] pc = "makedirs"       -> StepsFromVerify(0) + 4
      [] pc = "save_go"        -> StepsFromVerify(0) + 3
      [] pc = "save_test"      -> StepsFromVerify(0) + 2
      [] pc = "init_module"    -> StepsFromVerify(0) + 1
      [] pc = "verify"         -> StepsFromVerify(attempt)
      [] pc = "heal"           -> StepsFromVerify(attempt) - 1
      [] pc = "heal_save_go"   -> StepsFromVerify(attempt) - 2
      [] pc = "heal_save_test" -> StepsFromVerify(attempt) - 3
      [] pc = "tidy"           -> StepsFromVerify(attempt) - 4
      [] pc = "report"         -> 1
      [] OTHER                 -> 0

\* the steps other than the two that ask the provider for text; those two,
\* generation and healing, have no condition but the position and the entry
\* point
OtherSteps ==
    \/ cli_start \/ app_start
    \/ prepare_directory \/ rmtree_unlink \/ rmtree_rmdir \/ makedirs
    \/ save_files_go \/ save_files_test \/ init_module
    \/ cli_verify \/ app_verify
    \/ tidy \/ write_report

\* the job can take a step
CanStep ==
    IF pc \in {"generate", "heal"} THEN ctl \in {"cli", "app"} ELSE ENABLED OtherSteps

\* C21: the job ends after finitely many steps: the number of steps it has
\* left at most is a natural number that every step lowers, a job that has
\* not ended can take a step, and a started job with its toolchain installed
\* that has none left has ended Succeeded or Failed.  Each pass from healing
\* back to verification moves the attempt counter on by one, and every
\* verification is the one of the round the counter names.
C21_JobTerminates ==
    /\ [](StepsLeft \in Nat)
    /\ [][StepsLeft' < StepsLeft]_vars
    /\ [](~Terminal => CanStep)
    /\ []((Started /\ go_installed /\ StepsLeft = 0) => pc \in {"done", "stopped"})
    /\ [][(pc = "tidy" /\ pc' = "verify") => attempt' = attempt + 1]_vars
    /\ [][verifs' = verifs + 1 => verifs' = attempt + 1]_vars

C21_Witness ==
    /\ pc = "done" /\ go_installed
    /\ attempt = MAX_RETRIES - 1 /\ FixCallsTotal = MAX_RETRIES - 1

\* a is an initial part of b
IsPrefix(a, b) == Len(a) <= Len(b) /\ SubSeq(b, 1, Len(a)) = a

\* C22: the log only grows at its end: each step leaves the entries there
\* were unchanged and in place, every entry is one "- message" line, and the
\* report lists all entries in the order they were appended.
C22_LogAppendOnly ==
    /\ [][IsPrefix(report_logs, report_logs')]_vars
    /\ [](\A i \in DOMAIN report_logs : Head(report_logs[i]) = "- ")
    /\ [](pc = "done" => ReportedLog(Report) = Join(<<"\n">>, report_logs))

C22_Witness ==
    /\ pc = "done" /\ Len(report_logs) >= 11
    /\ ReportedLog(Report) = Join(<<"\n">>, report_logs)

\* C23: the report is written at most once, by the step that follows the
\* last verification with the status decided, and after that write nothing
\* writes the report, the log or an artifact, and nothing verifies.
C23_ReportWrittenOnce ==
    /\ [](reports <= 1 /\ (reports = 1 <=> pc = "done"))
    /\ [][reports' # reports =>
             /\ pc = "report" /\ rounds # <<>>
             /\ success = LastRound.passed]_vars
    /\ [][reports >= 1 =>
             /\ disk' = disk /\ report_logs' = report_logs
             /\ writes' = writes /\ reports' = reports /\ verifs' = verifs]_vars

C23_Witness ==
    pc = "done" /\ reports = 1 /\ writes = 2 * MAX_RETRIES

\* C28: every verification starts with both files holding the current
\* pair, after two writes and one environment setup per round so far: in a
\* healing round both files are rewritten, then setup is re-run, then the
\* verifier is started.
C28_HealingRoundOrdering ==
    /\ [][verifs' = verifs + 1 =>
             /\ disk[go_file] = go_code /\ disk[test_file] = test_code
             /\ writes = 2 * verifs'
             /\ setups = verifs']_vars
    /\ [](pc = "tidy" =>
             /\ disk[go_file] = go_code /\ disk[test_file] = test_code
             /\ writes = 2 * (attempt + 2)
             /\ setups = attempt + 1)

C28_Witness ==
    /\ pc = "verify" /\ attempt = 1 /\ writes = 4 /\ setups = 2
    /\ disk[go_file] = go_code /\ go_code # before.go

\* C29: whatever becomes of an environment-setup step, the verifier is run
\* afterwards and the final status is the verifier's: a job that saved its
\* artifacts ends with at least one verification and with success exactly
\* when the last verification passed.
C29_SetupAdvisory ==
    (Terminal /\ writes > 0) =>
        /\ pc = "done"
        /\ verifs >= 1
        /\ success <=> LastRound.passed

\* the file whose text the healing under way handed to fix_code
HealedFile == IF InText(test_file, LastDiagnostic) THEN test_file ELSE go_file

\* C30: the fix prompt of a healing round holds the whole diagnostic text of
\* the verification that just failed and the selected artifact as it is now,
\* that is, as the directory held it for that verification.
C30_FixPromptInputs ==
    Healing =>
        /\ Contains(LastDiagnostic, fix_prompt)
        /\ Contains(before.disk[HealedFile], fix_prompt)
        /\ before.disk[go_file] = before.go
        /\ before.disk[test_file] = before.test

C30_Witness ==
    /\ pc = "heal_save_go" /\ fixCalls.impl = 2 /\ Len(LastDiagnostic) = 2
    /\ Contains(LastDiagnostic, fix_prompt)
    /\ Contains(before.go, fix_prompt)

\* C24: whatever the provider answered, the sanitized text begins with the
\* module declaration, also when the answer holds the declaration after
\* other content.
C24_BeginsWithPackageMain ==
    qpc = "cleaned" => (qcode # <<>> /\ Head(qcode) = "package main")

\* most requests one call sends to its provider
MaxAttempts == IF provider = "google" THEN 4 ELSE 3

\* the waits of one call
Delays == IF provider = "google" THEN <<1, 2, 4, 8>> ELSE <<2, 5, 10>>

\* a step that sends no request, waits for nothing and keeps the returned text
NoFurtherAttempt ==
    /\ qattempts' = qattempts
    /\ qslept' = qslept
    /\ qresult' = qresult
    /\ qpc' = "cleaned"

\* C25: one call sends at most 3 requests to OpenAI or Groq and at most 4 to
\* Gemini; its waits are the first ones of 2, 5, 10 (resp. 1, 2, 4, 8) in
\* that order, one after each request that is retried; a call that returns
\* after a failed request, or without having sent one, returns a text that
\* starts with "//"; a call that has returned sends and waits no more.
C25_ProviderCallsBounded ==
    /\ [](qattempts <= MaxAttempts)
    /\ [](IsPrefix(qslept, Delays) /\ Len(qslept) <= qattempts)
    /\ []((qpc \in {"returned", "cleaned"} /\ qlast # "ok")
              => LineStartsWith(qresult, "//"))
    /\ [][(qpc \in {"returned", "cleaned"}) => NoFurtherAttempt]_vars

C25_Witness ==
    /\ qpc = "cleaned" /\ provider = "google"
    /\ qattempts = 4 /\ qslept = <<1, 2, 4, 8>>
    /\ qresult = <<"// Gemini max retries exceeded">>

\* the ids of the chunks handed to every run
AllIds == {unique_id(Chunk(k)) : k \in 1..NumChunks}

\* C26: chunks are stored under filepath:name:start_line, an id no two
\* chunks share; no id has two entries in the collection; a run that
\* upserts only ids already stored leaves the set of ids as it was, and runs
\* that embed every chunk leave the same set, the ids of the chunks, whether
\* one or two of them.
C26_IndexingIdempotent ==
    /\ Cardinality(AllIds) = NumChunks
    /\ BagCardinality(collection) = Cardinality(StoredIds(collection))
    /\ StoredIds(collection) \subseteq AllIds
    /\ \A r \in 2..Len(iruns) :
          iruns[r].stored \subseteq iruns[r - 1].ids => iruns[r].ids = iruns[r - 1].ids
    /\ \A r \in 1..Len(iruns) :
          iruns[r].stored = AllIds => iruns[r].ids = AllIds

C26_Witness ==
    /\ Len(iruns) = 2
    /\ iruns[1].stored = AllIds /\ iruns[2].stored = AllIds
    /\ \A e \in BagToSet(collection) : e.embedding = 2

\* C27: at most 3 chunks are being processed at a time, however many are
\* queued.
C27_BoundedConcurrency == Cardinality(irunning) <= 3

C27_Witness == Cardinality(irunning) = 3 /\ ipending # <<>>

\* the text with every definition whose name an earlier definition has
\* replaced, where it stands, by the removal comment; from position p on
RECURSIVE CollapseFrom(_, _, _, _)
CollapseFrom(code, matches, seen, p) ==
    IF matches = <<>> THEN SubSeq(code, p, Len(code))
    ELSE LET m == Head(matches)
         IN  SubSeq(code, p, m[1] - 1)
                 \o (IF m[3] \in seen THEN <<"// Removed duplicate: ", m[3]>>
                     ELSE SubSeq(code, m[1], m[2]))
                 \o CollapseFrom(code, Tail(matches), seen \cup {m[3]}, m[2] + 1)

CollapseInPlace(code) == CollapseFrom(code, FuncMatches(code, 1), {}, 1)

\* C31: the sanitizer keeps the first definition of a name where it stands
\* and replaces every later one by the removal comment: its result is the
\* one it gives for the text in which that has been done.
C31_DuplicateCollapse ==
    spc = "returned" => sout = _auto_fix_common_errors(CollapseInPlace(stext))

\* a declaration of two names from a call of func starts at position p
TwoValueCall(code, func, p) ==
    LET a == SkipWs(code, p + 1)
        b == SkipWs(code, a + 1)
        c == SkipWs(code, b + 1)
        d == SkipWs(code, c + 1)
        e == SkipWs(code, d + 1)
    IN  /\ code[p] \in WordTokens
        /\ e <= Len(code)
        /\ code[a] = ","
        /\ code[b] \in WordTokens
        /\ code[c] = ":="
        /\ code[d] = func
        /\ code[e] = "("

\* C32: the sanitized text holds no declaration of two or more names from a
\* call of a single-return function.
C32_SingleReturnRewrite ==
    spc = "returned" =>
        \A p \in DOMAIN sout, i \in DOMAIN single_return_funcs :
            ~TwoValueCall(sout, single_return_funcs[i], p)

\* what starts a line of prose or of a shell transcript
ProseTokens == {"# Migration notes", "* bullet", "===", "go", "go test ./...", "go run ."}

\* a text with the module declaration, no fence, no line of prose and
\* nothing the rewrites apply to
PlainCode(raw) ==
    /\ InText("package main", raw)
    /\ \A i \in DOMAIN raw : raw[i] \notin {"<fence>go", "<fence>"} \cup ProseTokens
    /\ _auto_fix_common_errors(Strip(raw)) = Strip(raw)

\* C33: a text of plain code is returned trimmed, every line kept in order.
C33_PassThrough ==
    (spc = "returned" /\ PlainCode(sraw)) => sout = Strip(sraw)

\* chunk k's call of _get_embedding sends a request
Requests(k) ==
    /\ ivector[k] = "pending"
    /\ iattempt'[k] = iattempt[k] + 1 \/ ivector'[k] \in {"vector", "raised"}

\* _get_embedding gives up on chunk k
GivesUp(k) == ivector[k] = "pending" /\ ivector'[k] = "none"

\* chunk k's processing ends without a vector
EndsWithoutVector(k) == k \in irunning /\ k \notin irunning' /\ ivector[k] # "vector"

\* every step is as C34 says
EmbeddingSteps ==
    \A k \in 1..NumChunks :
        /\ Requests(k) => iattempt[k] < 3
        /\ GivesUp(k) => islept[k] = <<5, 10, 15>>
        /\ EndsWithoutVector(k) =>
               /\ lists' = lists
               /\ irunning' = irunning \ {k}
               /\ ipending' = ipending
               /\ ipc' = ipc
               /\ \A o \in 1..NumChunks \ {k} : ivector'[o] = ivector[o]

\* C34: _get_embedding sends at most 3 requests for a chunk; its waits are
\* 5, 10, 15 in that order, each longer than the one before; it gives up
\* with no vector only after three rate-limit answers; a chunk whose
\* processing ends without a vector is left out of the lists that are
\* upserted, and the other chunks, queued or running, go on as they were.
C34_EmbeddingRetry ==
    /\ [](\A k \in 1..NumChunks :
             /\ iattempt[k] <= 3
             /\ Len(islept[k]) = iattempt[k]
             /\ IsPrefix(islept[k], <<5, 10, 15>>))
    /\ [][EmbeddingSteps]_vars

C34_Witness ==
    \E k \in 1..NumChunks :
        /\ ivector[k] = "none" /\ k \in irunning
        /\ ids # <<>> /\ ipending # <<>>

\* the i-th entries of the four lists belong to one chunk
Aligned ==
    /\ Len(documents) = Len(ids)
    /\ Len(embeddings) = Len(ids)
    /\ Len(metadatas) = Len(ids)
    /\ \A i \in DOMAIN ids :
          \E k \in 1..NumChunks :
              /\ ids[i] = unique_id(Chunk(k))
              /\ documents[i] = Chunk(k).content
              /\ metadatas[i] = [name     |-> Chunk(k).name,
                                 filepath |-> Chunk(k).filepath,
                                 line     |-> Chunk(k).start_line]

\* the collection changes only at the end of a run, when no chunk is queued
\* or running and a chunk was embedded
UpsertsAtEnd ==
    /\ collection' # collection =>
           /\ ipending = <<>> /\ irunning = {} /\ ids # <<>>
           /\ Len(iruns') = Len(iruns) + 1
    /\ (Len(iruns') = Len(iruns) + 1 /\ ids = <<>>) => collection' = collection

\* C35: whatever the order in which the workers finish, the four lists have
\* one length and their i-th entries belong to one chunk; the collection is
\* upserted once at most in a run, after every worker has finished, and not
\* at all when no chunk was embedded.
C35_ListsAligned ==
    /\ []Aligned
    /\ [][UpsertsAtEnd]_vars

C35_Witness ==
    /\ Len(ids) = NumChunks - 1
    /\ ids[1] = unique_id(Chunk(3))
    /\ ids[2] = unique_id(Chunk(1))
    /\ Len(iruns) = 1 /\ iruns[1].stored = {}

\* a fix is asked for only after a build-classified failure in a round that
\* is not the last
FixesAreVerified ==
    FixCallsTotal' > FixCallsTotal =>
        /\ attempt < MAX_RETRIES - 1
        /\ ~LastRound.passed /\ LastRound.build

\* C36: when the job has ended, the two artifact files, and the texts the
\* controller holds, are the ones the last verification ran against; every
\* write of an artifact has been followed by a verification; no fix is
\* asked for in the last round or after a failure that is not
\* build-classified.
C36_FinalPairIsVerified ==
    /\ [](pc \in {"report", "done"} =>
             /\ disk[go_file] = verified.go /\ disk[test_file] = verified.test
             /\ go_code = verified.go /\ test_code = verified.test
             /\ writes = 2 * verifs)
    /\ [][FixesAreVerified]_vars

C36_Witness ==
    /\ pc = "done" /\ verifs = MAX_RETRIES /\ ~success
    /\ disk[go_file] = verified.go /\ disk[test_file] = verified.test
    /\ verified.go # before.go

\* C37: a job that has ended has asked for one fix less than it has run
\* verifications, 2 at most; while a fix awaits its verification the two
\* numbers are equal, and they never differ by more than one.
C37_FixesAndVerifications ==
    /\ pc \in {"report", "done"} =>
           /\ FixCallsTotal = verifs - 1
           /\ FixCallsTotal <= MAX_RETRIES - 1 /\ FixCallsTotal <= 2
    /\ pc \in {"heal_save_go", "heal_save_test", "tidy", "verify"} => FixCallsTotal = verifs
    /\ FixCallsTotal <= verifs /\ verifs <= FixCallsTotal + 1

C37_Witness ==
    /\ pc = "done" /\ success
    /\ FixCallsTotal = 2 /\ verifs = 3

\* both runs of a pair have ended
BothEnded == first # NoFirst /\ pc \in {"done", "rejected", "crashed", "stopped", "error"}

\* C38: on the same generation results, fix answers and go test results the
\* app.py path ends as cli.py did: the same number of verifications, the same
\* artifact regenerated in each healing round, the same status and the same
\* final output text.
C38_ControllersEquivalent ==
    BothEnded =>
        /\ verifs = first.verifs
        /\ rounds = first.rounds /\ fixCalls = first.fixCalls
        /\ pc = first.ended /\ success = first.success
        /\ final_output = first.final_output

\* where the two controllers do agree: unless the generated implementation
\* carries the failure marker they run the same rounds, heal the same
\* artifacts to the same texts and end with the same status, and the final
\* output differs only when a failing last round wrote to both streams
PairAgreement ==
    (BothEnded /\ ~InText("GENERATION FAILED", go_code)) =>
        /\ verifs = first.verifs
        /\ rounds = first.rounds /\ fixCalls = first.fixCalls
        /\ pc = first.ended /\ success = first.success
        /\ go_code = first.go_code /\ test_code = first.test_code
        /\ (success \/ script.procs[attempt + 1].stdout = <<>>
                    \/ script.procs[attempt + 1].stderr = <<>>)
               => final_output = first.final_output

PairOutputsDiffer ==
    /\ BothEnded /\ verifs = first.verifs /\ pc = first.ended
    /\ final_output # first.final_output

PairRoundsDiffer == BothEnded /\ verifs # first.verifs

\* a request is sent
RequestSent == qattempts' = qattempts + 1

\* an OpenAI error without any of the five words ends the call with the
\* error text
OpenAIFatalEnds ==
    (provider = "openai" /\ RequestSent /\ qlast' = "failed"
         /\ \A x \in {"rate", "limit", "429", "500", "503"} : ~InText(x, <<qerror'.msg>>))
        => /\ qpc' = "returned"
           /\ qresult' = <<"// OpenAI Error: ", qerror'.msg>>
           /\ qslept' = qslept

\* a Gemini status other than 200, 429, 500, 503 ends the call with the
\* error text
GeminiFatalEnds ==
    (provider = "google" /\ RequestSent /\ qerror'.status \notin {0, 200, 429, 500, 503})
        => /\ qpc' = "returned"
           /\ Len(qresult') = 2 /\ Head(qresult') = "// Gemini Error: "
           /\ qslept' = qslept

\* the failure the last request ended with is one the provider function
\* waits on: an OpenAI error with one of the five words, a Gemini status of
\* 429, 500 or 503, or a Gemini request that raised and brought no status
TransientFailure ==
    /\ qlast = "failed"
    /\ IF provider = "openai"
       THEN \E x \in {"rate", "limit", "429", "500", "503"} : InText(x, <<qerror.msg>>)
       ELSE qerror.status \in {0, 429, 500, 503}

\* a request of _query_openai or _query_gemini is the first of its call or
\* follows a transient failure and the wait for it
RetryOnlyAfterTransient ==
    (provider \in {"openai", "google"} /\ RequestSent)
        => \/ qlast = "none" /\ qattempts = 0
           \/ TransientFailure /\ Len(qslept) = qattempts

\* C39: in _query_openai an error whose message holds none of rate, limit,
\* 429, 500, 503 ends the call at once with "// OpenAI Error: " and the
\* message; in _query_gemini a status other than 200, 429, 500, 503 ends the
\* call at once with "// Gemini Error: " and the body; a further request is
\* sent only after a transient failure and the wait for it, so none after
\* either end.
C39_TransientOnlyRetry ==
    /\ [][OpenAIFatalEnds]_vars
    /\ [][GeminiFatalEnds]_vars
    /\ [][RetryOnlyAfterTransient]_vars

C39_Witness ==
    /\ provider = "openai" /\ qpc = "returned"
    /\ qattempts = 2 /\ qslept = <<2>>
    /\ qerror.msg = "invalid api key"
    /\ qresult = <<"// OpenAI Error: ", "invalid api key">>

====
